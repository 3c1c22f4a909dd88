----------------------------- MODULE DriftProofs -----------------------------
(***************************************************************************)
(* No silent drift, for every value of the constants: unless one of the    *)
(* events in mishaps came before, a state.json that records config.yaml as *)
(* applied means that exactly the configured workload may be running, with *)
(* the configured content.                                                 *)
(***************************************************************************)
EXTENDS ConvergeProofs

\* NoSilentDrift speaks of settled nodes only.  What is true all the time is that
\* every running workload is accounted for: it is the recorded one, or the wanted
\* one, started by a converge that has not been recorded (yet).
Confirmed(m) ==
  state.model # None /\ state.model.name = m /\ running[m] = Expanded[state.model.hash]
Wanted(m)    == m = config.recipe /\ running[m] = OnNode(config)[m]
Up(m)        == running[m] # None

\* The running apply still has m's workload to stop.
ToStop(m) ==
  \/ pc \in Stopping /\ m \in todo
  \/ pc \in Restopping /\ plan.restop /\ m = view.recipe

Accounted == \A m \in Models : Up(m) => Confirmed(m) \/ Wanted(m)

\* An apply that will record the model as converged leaves only the wanted one.
Covered ==
  pc \in ApplyPcs /\ ConvergedAfter(view, plan)
    => \A m \in Models : Up(m) => Wanted(m) \/ ToStop(m)

\* What `sparkrun run` will start is what was rendered.
Written ==
  pc \in ApplyPcs \ {"write"} /\ HasModel(view) => disk[view.recipe] = OnNode(view)[view.recipe]

\* model stop and teardown stop everything by stopping the configured recipe.
OnlyConfigured == pc \in {"mstop", "tstop"} => \A m \in Models : Up(m) => m = view.recipe
NothingLeft    == pc \in {"mrecord", "tdown", "tclear"} => \A m \in Models : ~Up(m)

PlanFits == pc \in ApplyPcs => /\ plan.ensure => HasModel(view)
                               /\ plan.restop => HasModel(view)

Clean == mishaps \subseteq DaemonMishaps

DriftInv ==
  /\ PlanFits
  /\ Clean => CurrentView /\ Accounted /\ Covered /\ Written /\ OnlyConfigured /\ NothingLeft

-----------------------------------------------------------------------------
(* What the plan knows *)

\* When no restart is needed, the recorded workload is the configured one.
LEMMA QuietIsCurrent ==
  ASSUME NEW c \in Configs, NEW s \in States, ~NeedsRestart(c, s, TRUE), s.model # None
  PROVE  HasModel(c) /\ s.model.name = c.recipe /\ s.model.hash = CurrentHash(c)
<1>1. s.model.name \in Models /\ s.model.name # None
  BY NoneAssumption DEF States, ModelEntry
<1>2. s.model.name \in PrevRecipes(s)
  BY <1>1 DEF PrevRecipes
<1>3. s.model.name = c.recipe
  BY <1>2 DEF NeedsRestart, StaleRecipes
<1> QED BY <1>1, <1>3 DEF NeedsRestart, RestartCurrent, HasModel

\* So an accounted workload is the wanted one.
LEMMA QuietMeansWanted ==
  ASSUME TypeOK, Accounted, ~NeedsRestart(config, state, TRUE), NEW m \in Models, Up(m)
  PROVE  Wanted(m)
<1>1. config \in Configs /\ state \in States
  BY DEF TypeOK
<1>2. CASE Confirmed(m)
  <2>1. HasModel(config) /\ m = config.recipe /\ state.model.hash = CurrentHash(config)
    BY <1>1, <1>2, QuietIsCurrent DEF Confirmed
  <2>2. OnNode(config)[config.recipe] = Expanded[CurrentHash(config)]
    BY <1>1, <2>1, RenderType
  <2> QED BY <1>2, <2>1, <2>2 DEF Confirmed, Wanted
<1> QED BY <1>2 DEF Accounted

\* On a settled node, "recorded" and "wanted" are the same.
LEMMA SettledMeansWanted ==
  ASSUME TypeOK, Settled, NEW m \in Models
  PROVE  Up(m) => (Confirmed(m) <=> Wanted(m))
<1>1. config \in Configs
  BY DEF TypeOK
<1>2. state.model = IF HasModel(config) THEN [name |-> config.recipe, hash |-> CurrentHash(config)]
                    ELSE None
  BY DEF Settled, ConvergedState
<1>3. CASE HasModel(config)
  <2>1. OnNode(config)[config.recipe] = Expanded[CurrentHash(config)] /\ config.recipe \in Models
    BY <1>1, <1>3, RenderType
  <2>2. state.model # None /\ state.model.name = config.recipe /\ state.model.hash = CurrentHash(config)
    <3>1. [name |-> config.recipe, hash |-> CurrentHash(config)] \in ModelEntry
      BY <1>1, <1>3, <2>1, RenderType DEF ModelEntry
    <3> QED BY <1>2, <1>3, <3>1, NoneAssumption
  <2> QED BY <2>1, <2>2 DEF Confirmed, Wanted
<1>4. CASE ~HasModel(config)
  BY <1>2, <1>4, NoneAssumption DEF Confirmed, Wanted, HasModel
<1> QED BY <1>3, <1>4

-----------------------------------------------------------------------------
(* One lemma for each kind of step: what it does to the invariant *)

\* The invariant speaks of the workloads of some step only through these.
LEMMA SameWorkloads ==
  ASSUME UNCHANGED <<config, state, running>>, NEW m
  PROVE  Up(m)' = Up(m) /\ Confirmed(m)' = Confirmed(m) /\ Wanted(m)' = Wanted(m)
BY DEF Up, Confirmed, Wanted

\* An apply starts: what its plan will not stop is what the config wants.
LEMMA DriftStarts == TypeOK /\ DriftInv /\ Starts => DriftInv'
<1> SUFFICES ASSUME TypeOK, DriftInv, Starts PROVE DriftInv'
  OBVIOUS
<1>1. PICK restart \in BOOLEAN, noModel \in BOOLEAN :
        StartApply(restart, noModel)
  BY DEF Starts
<1> DEFINE launch == Launches(config, noModel)
<1>2. config \in Configs /\ state \in States /\ launch \in BOOLEAN
  BY DEF TypeOK, Launches
<1>3. /\ pc = "idle" /\ pc' = "write" /\ view' = config
      /\ UNCHANGED <<config, disk, state, running>>
      /\ plan' = BuildPlan(config, state, restart, launch) /\ todo' = plan'.stale
      /\ mishaps \subseteq mishaps'
      /\ ~launch /\ ~ModelQuiet(config, state) => "no_model" \in mishaps'
  BY <1>1 DEF StartApply, Begin, Note, node
<1>4. PlanFits'
  <2>1. /\ plan'.ensure => HasModel(config)
        /\ plan'.restop => HasModel(config)
    BY <1>2, <1>3, PlanStops
  <2> QED BY <2>1, <1>3 DEF PlanFits
<1>5. ASSUME Clean' PROVE Clean /\ (launch \/ ~NeedsRestart(config, state, TRUE))
  BY <1>3, <1>5 DEF Clean, DaemonMishaps, ModelQuiet
<1>6. ASSUME Clean', ConvergedAfter(view', plan'), NEW m \in Models, Up(m)
      PROVE  Wanted(m) \/ ToStop(m)'
  <2>1. Accounted
    BY <1>5, <1>6 DEF DriftInv
  <2>2. CASE ~NeedsRestart(config, state, TRUE)
    BY <2>1, <2>2, <1>6, QuietMeansWanted
  <2>3. CASE launch /\ NeedsRestart(config, state, TRUE)
    <3>1. /\ plan'.pending = (~restart /\ NeedsRestart(config, state, launch))
          /\ plan'.restart = restart
          /\ plan'.stale = PlannedStops(config, state, restart, launch)
          /\ plan'.restop = (restart /\ RestartCurrent(config, state, launch))
      BY <1>2, <1>3, PlanFields
    <3>2. launch = TRUE
      BY <2>3, <1>2
    <3>3. restart
      BY <3>1, <3>2, <2>3, <1>3, <1>6 DEF ConvergedAfter
    <3>4. plan'.stale = PrevRecipes(state) \ {config.recipe}
      BY <3>1, <3>2, <3>3 DEF PlannedStops, StaleRecipes
    <3>5. CASE Confirmed(m)
      <4>1. m \in PrevRecipes(state)
        BY <3>5 DEF Confirmed, PrevRecipes
      <4>2. CASE m # config.recipe
        BY <4>1, <4>2, <3>4, <1>3 DEF ToStop, Stopping
      <4>3. CASE m = config.recipe /\ state.model.hash # CurrentHash(config)
        <5>1. RestartCurrent(config, state, launch)
          BY <4>3, <3>2, <3>5 DEF RestartCurrent, Confirmed
        <5> QED BY <5>1, <3>1, <3>3, <4>3, <1>3 DEF ToStop, Stopping, Restopping
      <4>4. CASE m = config.recipe /\ state.model.hash = CurrentHash(config)
        <5>1. HasModel(config)
          BY <4>4, NoneAssumption DEF HasModel
        <5>2. OnNode(config)[config.recipe] = Expanded[CurrentHash(config)]
          BY <5>1, <1>2, RenderType
        <5> QED BY <5>2, <4>4, <3>5 DEF Confirmed, Wanted
      <4> QED BY <4>2, <4>3, <4>4
    <3> QED BY <3>5, <2>1, <1>6 DEF Accounted
  <2> QED BY <2>2, <2>3, <1>5, <1>6
<1>7. ASSUME Clean'
      PROVE  /\ CurrentView' /\ Accounted' /\ Covered' /\ Written' /\ OnlyConfigured' /\ NothingLeft'
  <2>1. Accounted
    BY <1>5, <1>7 DEF DriftInv
  <2>2. \A m \in Models : /\ Up(m)' = Up(m)
                          /\ Confirmed(m)' = Confirmed(m)
                          /\ Wanted(m)' = Wanted(m)
    BY <1>3, SameWorkloads
  <2>3. Accounted'
    BY <2>1, <2>2 DEF Accounted
  <2>4. Covered'
    BY <1>6, <1>7, <2>2 DEF Covered
  <2> QED BY <2>3, <2>4, <1>3 DEF CurrentView, Written, OnlyConfigured, NothingLeft
<1> QED BY <1>4, <1>7 DEF DriftInv

\* The files of the apply that writes them are those it rendered; the others it
\* deletes are no recipes.
LEMMA DriftFiles == TypeOK /\ DriftInv /\ FileSteps => DriftInv'
<1> SUFFICES ASSUME TypeOK, DriftInv, FileSteps PROVE DriftInv'
  OBVIOUS
<1>1. UNCHANGED <<config, state, running, mishaps>> /\ Clean' = Clean
  BY DEF FileSteps, WriteFiles, WriteFails, DeleteRemoved, DeleteFails, WriteGatewayFiles,
         GatewayWriteFails, Clean
<1>2. \A m \in Models : /\ Up(m)' = Up(m)
                        /\ Confirmed(m)' = Confirmed(m)
                        /\ Wanted(m)' = Wanted(m)
  BY <1>1, SameWorkloads
<1>3. Accounted' = Accounted
  BY <1>2 DEF Accounted
<1>4. pc # "idle" => view \in Configs /\ (HasModel(view) => view.recipe \in Rels)
  BY RenderType DEF TypeOK, Rels
<1>5. CASE WriteFiles
  <2>1. pc = "write" /\ pc' = "mesh" /\ UNCHANGED <<view, plan, todo>> /\ WriteSome(Rels)
    BY <1>5 DEF WriteFiles, Goto
  <2>2. HasModel(view) => disk'[view.recipe] = OnNode(view)[view.recipe]
    <3>1. HasModel(view) => view.recipe \in Rels \cap TargetMapping(view)
      BY <2>1, <1>4, RenderType
    <3> QED BY <2>1, <3>1 DEF WriteSome
  <2>3. Written'
    BY <2>1, <2>2 DEF Written
  <2>4. \A m \in Models : ToStop(m)' = ToStop(m)
    BY <2>1 DEF ToStop, Stopping, Restopping
  <2>5. Covered => Covered'
    BY <2>1, <2>4, <1>2 DEF Covered, ApplyPcs
  <2> QED BY <2>1, <2>3, <2>5, <1>1, <1>3
          DEF DriftInv, PlanFits, CurrentView, OnlyConfigured, NothingLeft, ApplyPcs
<1>6. CASE WriteFails \/ DeleteFails \/ WriteGatewayFiles \/ GatewayWriteFails
  <2>1. pc' \in {"idle", "lrestart"} /\ (pc' # "idle" => pc # "idle" /\ view' = view)
    BY <1>6 DEF WriteFails, DeleteFails, WriteGatewayFiles, GatewayWriteFails, Return, Goto
  <2> QED BY <2>1, <1>1, <1>3
          DEF DriftInv, PlanFits, CurrentView, Covered, Written, OnlyConfigured, NothingLeft, ApplyPcs
<1>7. CASE DeleteRemoved
  <2>1. pc = "delete" /\ pc' = "save" /\ UNCHANGED <<view, plan, todo>>
    BY <1>7 DEF DeleteRemoved, Goto
  <2>2. plan.removed \cap Models = {}
    BY <2>1, ModelsAssumption DEF TypeOK, Plans, ApplyPcs
  <2>3. HasModel(view) => disk'[view.recipe] = disk[view.recipe]
    <3>1. HasModel(view) => view.recipe \in Models
      BY <2>1, <1>4, RenderType
    <3> QED BY <3>1, <2>1, <2>2, <1>4, <1>7 DEF DeleteRemoved, DeleteSome
  <2>4. Written => Written'
    BY <2>1, <2>3 DEF Written, ApplyPcs
  <2>5. Covered => Covered'
    BY <2>1, <1>2 DEF Covered, ToStop, ApplyPcs, Stopping, Restopping
  <2> QED BY <2>1, <2>4, <2>5, <1>1, <1>3
          DEF DriftInv, PlanFits, CurrentView, OnlyConfigured, NothingLeft, ApplyPcs
<1> QED BY <1>5, <1>6, <1>7 DEF FileSteps

\* What is recorded at the end confirms what runs.
LEMMA DriftState == TypeOK /\ DriftInv /\ StateSteps => DriftInv'
<1> SUFFICES ASSUME TypeOK, DriftInv, StateSteps PROVE DriftInv'
  OBVIOUS
<1>1. pc' = "idle" /\ UNCHANGED <<config, running>>
  BY DEF StateSteps, SaveApply, RecordStop, ClearState, Adopt, SaveGatewayFiles, SaveState,
         Return, node
<1>2. \A m \in Models : Up(m)' = Up(m) /\ Wanted(m)' = Wanted(m)
  BY <1>1 DEF Up, Wanted
<1>3. ASSUME Clean' PROVE Clean
  BY <1>3 DEF Clean, DaemonMishaps, StateSteps, SaveApply, RecordStop, ClearState, Adopt,
              SaveGatewayFiles, SaveState, Note
<1>4. ASSUME Clean', state'.model = state.model PROVE Accounted'
  <2>1. Accounted
    BY <1>3, <1>4 DEF DriftInv
  <2>2. \A m \in Models : Confirmed(m) => Confirmed(m)'
    BY <1>1, <1>4 DEF Confirmed
  <2> QED BY <2>1, <2>2, <1>2 DEF Accounted
<1>5. ASSUME Clean', \A m \in Models : Up(m) => Wanted(m) PROVE Accounted'
  BY <1>2, <1>5 DEF Accounted
<1>6. ASSUME Clean' PROVE Accounted'
  <2>1. CASE SaveApply
    <3>1. pc = "save" /\ state' = StateAfterApply(view, plan, state)
      BY <2>1, <1>6 DEF SaveApply, SaveState, Note, Clean, DaemonMishaps
    <3>2. CASE ConvergedAfter(view, plan)
      <4>1. \A m \in Models : ~ToStop(m)
        BY <3>1 DEF ToStop, Stopping, Restopping
      <4>2. \A m \in Models : Up(m) => Wanted(m)
        BY <1>3, <1>6, <3>1, <3>2, <4>1 DEF DriftInv, Covered, ApplyPcs
      <4> QED BY <4>2, <1>5, <1>6
    <3>3. CASE ~ConvergedAfter(view, plan)
      BY <3>1, <3>3, <1>4, <1>6 DEF StateAfterApply, ModelAfterApply
    <3> QED BY <3>2, <3>3
  <2>2. CASE RecordStop \/ ClearState
    <3>1. \A m \in Models : ~Up(m)
      BY <2>2, <1>3, <1>6 DEF RecordStop, ClearState, DriftInv, NothingLeft
    <3> QED BY <3>1, <1>5, <1>6
  <2>3. CASE Adopt
    <3>1. Settled
      BY <2>3, <1>6 DEF Adopt, Note, Clean, DaemonMishaps
    <3> QED BY <3>1, <1>3, <1>5, <1>6, SettledMeansWanted DEF DriftInv, Accounted
  <2>4. CASE SaveGatewayFiles
    BY <2>4, <1>4, <1>6 DEF SaveGatewayFiles, SaveState, Note, Clean, DaemonMishaps,
                            WithGatewayFiles
  <2> QED BY <2>1, <2>2, <2>3, <2>4 DEF StateSteps
<1> QED BY <1>1, <1>6
        DEF DriftInv, PlanFits, CurrentView, Covered, Written, OnlyConfigured, NothingLeft, ApplyPcs

\* A workload goes away, or starts from the file that was written.
LEMMA DriftWorkloads == TypeOK /\ DriftInv /\ WorkloadSteps => DriftInv'
<1> SUFFICES ASSUME TypeOK, DriftInv, WorkloadSteps PROVE DriftInv'
  OBVIOUS
<1>1. UNCHANGED <<config, disk, state, view, plan, mishaps>> /\ Clean' = Clean
  BY DEF WorkloadSteps, StopStale, WorkloadExits, StopCurrent, EnsureModel, Goto, Clean
<1>2. running \in [Models -> Contents \cup {None}]
  BY DEF TypeOK
<1>3. ASSUME NEW m \in Models, Clean, running'[m] = running[m]
      PROVE  Up(m)' = Up(m) /\ Confirmed(m)' = Confirmed(m) /\ Wanted(m)' = Wanted(m)
  BY <1>1, <1>3 DEF Up, Confirmed, Wanted
<1>4. ASSUME NEW m \in Models, StopStale(m) PROVE DriftInv'
  <2>1. /\ pc = "stop" /\ pc' = "stop" /\ todo' = todo \ {m}
        /\ ~Up(m)'
        /\ \A n \in Models \ {m} : running'[n] = running[n]
    BY <1>2, <1>4 DEF StopStale, Up
  <2>2. Clean /\ Accounted => Accounted'
    BY <2>1, <1>3 DEF Accounted
  <2>3. \A n \in Models \ {m} : ToStop(n) => ToStop(n)'
    BY <2>1, <1>1 DEF ToStop
  <2>4. Clean /\ Covered => Covered'
    BY <2>1, <2>3, <1>1, <1>3 DEF Covered
  <2> QED BY <2>1, <2>2, <2>4, <1>1
          DEF DriftInv, PlanFits, CurrentView, Written, OnlyConfigured, NothingLeft
<1>5. ASSUME NEW m \in Models, WorkloadExits(m) PROVE DriftInv'
  <2>1. /\ UNCHANGED <<pc, todo>>
        /\ ~Up(m)'
        /\ \A n \in Models \ {m} : running'[n] = running[n]
    BY <1>2, <1>5 DEF WorkloadExits, Up
  <2>2. Clean /\ Accounted => Accounted'
    BY <2>1, <1>3 DEF Accounted
  <2>3. \A n \in Models : ToStop(n) => ToStop(n)'
    BY <2>1, <1>1 DEF ToStop
  <2>4. Clean /\ Covered => Covered'
    BY <2>1, <2>3, <1>1, <1>3 DEF Covered
  <2>5. Clean /\ OnlyConfigured => OnlyConfigured'
    BY <2>1, <1>1, <1>3 DEF OnlyConfigured
  <2>6. Clean /\ NothingLeft => NothingLeft'
    BY <2>1, <1>1, <1>3 DEF NothingLeft
  <2> QED BY <2>1, <2>2, <2>4, <2>5, <2>6, <1>1 DEF DriftInv, PlanFits, CurrentView, Written
<1>6. CASE StopCurrent
  <2>1. /\ pc = "restop" /\ pc' = "compose" /\ UNCHANGED todo
        /\ running' = IF plan.restop THEN [running EXCEPT ![view.recipe] = None] ELSE running
    BY <1>6 DEF StopCurrent, Goto
  <2>2. \A m \in Models : running'[m] = running[m] \/ (~Up(m)' /\ plan.restop /\ m = view.recipe)
    BY <2>1, <1>2 DEF Up
  <2>3. Clean /\ Accounted => Accounted'
    BY <2>2, <1>3 DEF Accounted
  <2>4. \A m \in Models : ToStop(m) => ~Up(m)'
    BY <2>1, <1>2 DEF ToStop, Stopping, Up
  <2>5. Clean /\ Covered => Covered'
    BY <2>1, <2>2, <2>4, <1>1, <1>3 DEF Covered, ApplyPcs
  <2> QED BY <2>1, <2>3, <2>5, <1>1
          DEF DriftInv, PlanFits, CurrentView, Written, OnlyConfigured, NothingLeft, ApplyPcs
<1>7. CASE EnsureModel
  <2>1. /\ pc = "ensure" /\ pc' \in {"probe", "delete"} /\ UNCHANGED todo
        /\ running' = IF plan.ensure /\ running[view.recipe] = None
                      THEN [running EXCEPT ![view.recipe] = disk[view.recipe]] ELSE running
    BY <1>7 DEF EnsureModel, Goto
  <2>2. ASSUME NEW m \in Models, Clean PROVE running'[m] = running[m] \/ Wanted(m)'
    <3>1. CASE plan.ensure /\ m = view.recipe
      <4>1. HasModel(view) /\ view = config /\ disk[view.recipe] = OnNode(view)[view.recipe]
        BY <2>1, <2>2, <3>1 DEF DriftInv, PlanFits, CurrentView, Written, ApplyPcs
      <4> QED BY <4>1, <3>1, <2>1, <1>1, <1>2 DEF Wanted
    <3>2. CASE ~(plan.ensure /\ m = view.recipe)
      BY <3>2, <2>1, <1>2
    <3> QED BY <3>1, <3>2
  <2>3. Clean /\ Accounted => Accounted'
    BY <2>2, <1>3 DEF Accounted
  <2>4. \A m \in Models : ~ToStop(m)
    BY <2>1 DEF ToStop, Stopping, Restopping
  <2>5. Clean /\ Covered => Covered'
    BY <2>1, <2>2, <2>4, <1>1, <1>3 DEF Covered, ApplyPcs
  <2> QED BY <2>1, <2>3, <2>5, <1>1
          DEF DriftInv, PlanFits, CurrentView, Written, OnlyConfigured, NothingLeft, ApplyPcs
<1> QED BY <1>4, <1>5, <1>6, <1>7 DEF WorkloadSteps

\* model stop and teardown: with nothing stale recorded, the configured recipe is
\* the only one that can be running.
LEMMA DriftCommands == TypeOK /\ DriftInv /\ OtherCommands => DriftInv'
<1> SUFFICES ASSUME TypeOK, DriftInv, OtherCommands PROVE DriftInv'
  OBVIOUS
<1>1. UNCHANGED <<config, state>>
  BY DEF OtherCommands, StartModelStop, StopModel, StartTeardown, TeardownStop, ComposeDown,
         Begin, Goto
<1>2. ASSUME Clean' PROVE Clean
  BY <1>2 DEF Clean, DaemonMishaps, OtherCommands, StartModelStop, StopModel, StartTeardown,
              TeardownStop, ComposeDown, Note
<1>3. pc' \in {"mstop", "mrecord", "tstop", "tdown", "tclear"}
  BY DEF OtherCommands, StartModelStop, StopModel, StartTeardown, TeardownStop, ComposeDown,
         Begin, Goto
<1>4. ASSUME Clean' PROVE CurrentView' /\ Accounted' /\ OnlyConfigured' /\ NothingLeft'
  <2>1. CurrentView /\ Accounted /\ OnlyConfigured /\ NothingLeft
    BY <1>2, <1>4 DEF DriftInv
  <2>2. CASE StartModelStop \/ StartTeardown
    <3>1. pc' \in {"mstop", "tstop"} /\ view' = config /\ UNCHANGED running
      BY <2>2 DEF StartModelStop, StartTeardown, Begin, node
    <3>2. NothingStale
      <4>1. ~NothingStale => "stop" \in mishaps' \/ "teardown" \in mishaps'
        BY <2>2 DEF StartModelStop, StartTeardown, Note
      <4> QED BY <4>1, <1>4 DEF Clean, DaemonMishaps
    <3>3. \A m \in Models : Up(m) => m = config.recipe
      BY <3>2, <2>1 DEF Accounted, Confirmed, Wanted, NothingStale, StaleRecipes, PrevRecipes
    <3>4. \A m \in Models : /\ Up(m)' = Up(m)
                            /\ Confirmed(m)' = Confirmed(m)
                            /\ Wanted(m)' = Wanted(m)
      BY <1>1, <3>1, SameWorkloads
    <3>5. Accounted'
      BY <3>4, <2>1 DEF Accounted
    <3> QED BY <3>1, <3>3, <3>4, <3>5, <1>1 DEF CurrentView, OnlyConfigured, NothingLeft
  <2>3. CASE StopModel \/ TeardownStop
    <3>1. /\ pc \in {"mstop", "tstop"} /\ pc' \in {"mrecord", "tdown"} /\ UNCHANGED view
          /\ \/ HasModel(view) /\ running' = [running EXCEPT ![view.recipe] = None]
             \/ ~HasModel(view) /\ running' = running
      BY <2>3, <1>4 DEF StopModel, TeardownStop, StopConfigured, Goto, Note, Clean, DaemonMishaps
    <3>2. \A m \in Models : Up(m) => m = view.recipe
      BY <3>1, <2>1 DEF OnlyConfigured
    <3>3. \A m \in Models : ~Up(m)'
      BY <3>1, <3>2, NoneAssumption DEF Up, HasModel, TypeOK
    <3> QED BY <3>1, <3>3, <2>1, <1>1 DEF CurrentView, Accounted, OnlyConfigured, NothingLeft
  <2>4. CASE ComposeDown
    <3>1. pc = "tdown" /\ pc' = "tclear" /\ UNCHANGED <<view, running>>
      BY <2>4 DEF ComposeDown, Goto
    <3>2. \A m \in Models : ~Up(m)'
      BY <3>1, <2>1 DEF NothingLeft, Up
    <3> QED BY <3>1, <3>2, <2>1, <1>1 DEF CurrentView, Accounted, OnlyConfigured, NothingLeft
  <2> QED BY <2>2, <2>3, <2>4 DEF OtherCommands
<1> QED BY <1>3, <1>4 DEF DriftInv, PlanFits, Covered, Written, ApplyPcs

\* An edit is clean on a settled node, where what runs is what is recorded, and on
\* a blank one.
LEMMA DriftEdits == TypeOK /\ DriftInv /\ Edits => DriftInv'
<1> SUFFICES ASSUME TypeOK, DriftInv, Edits PROVE DriftInv'
  OBVIOUS
<1>1. UNCHANGED <<disk, state, running, pc, view, plan, todo>>
  BY DEF Edits, EditConfig, node
<1>2. ASSUME Clean' PROVE Clean /\ pc = "idle" /\ (Settled \/ Blank)
  BY <1>2 DEF Clean, DaemonMishaps, Edits, EditConfig, Note, Settled
<1>3. ASSUME Clean', NEW m \in Models PROVE Up(m)' => Confirmed(m)'
  <2>1. Up(m) => Confirmed(m)
    <3>1. CASE Settled
      BY <3>1, <1>2, <1>3, SettledMeansWanted DEF DriftInv, Accounted
    <3>2. CASE Blank
      BY <3>2 DEF Blank, Up
    <3> QED BY <3>1, <3>2, <1>2, <1>3
  <2> QED BY <2>1, <1>1 DEF Up, Confirmed
<1>4. Clean' => Accounted'
  BY <1>3 DEF Accounted
<1> QED BY <1>1, <1>2, <1>4
        DEF DriftInv, PlanFits, CurrentView, Covered, Written, OnlyConfigured, NothingLeft, ApplyPcs

\* The other steps of an apply move no workload.
LEMMA DriftWalks == TypeOK /\ DriftInv /\ Walks => DriftInv'
<1> SUFFICES ASSUME TypeOK, DriftInv, Walks PROVE DriftInv'
  OBVIOUS
<1>1. UNCHANGED <<config, disk, state, running, view, plan, todo>> /\ (Clean' => Clean)
  BY DEF Walks, Clean
<1>2. \A m \in Models : /\ Up(m)' = Up(m)
                        /\ Confirmed(m)' = Confirmed(m)
                        /\ Wanted(m)' = Wanted(m)
  BY <1>1, SameWorkloads
<1>3. Accounted' = Accounted
  BY <1>2 DEF Accounted
<1>4. \A m \in Models : ToStop(m) => ToStop(m)'
  BY DEF ToStop, Walks, Stopping, Restopping, ApplyPcs
<1>5. pc' \in ApplyPcs => pc \in ApplyPcs /\ (pc = "write" <=> pc' = "write")
  BY DEF Walks, ApplyPcs
<1>6. Covered => Covered'
  BY <1>1, <1>2, <1>4, <1>5 DEF Covered
<1>7. pc' = pc \/ (pc \in ApplyPcs /\ pc' \in ApplyPcs)
  BY DEF Walks
<1> QED BY <1>1, <1>2, <1>3, <1>5, <1>6, <1>7
        DEF DriftInv, PlanFits, CurrentView, Written, OnlyConfigured, NothingLeft, ApplyPcs

LEMMA DriftAside == TypeOK /\ DriftInv /\ Aside => DriftInv'
<1> SUFFICES ASSUME TypeOK, DriftInv, Aside PROVE DriftInv'
  OBVIOUS
<1>1. UNCHANGED <<config, state, running>> /\ (Clean' => Clean)
  BY DEF Aside, Clean
<1>2. \A m \in Models : /\ Up(m)' = Up(m)
                        /\ Confirmed(m)' = Confirmed(m)
                        /\ Wanted(m)' = Wanted(m)
  BY <1>1, SameWorkloads
<1>3. Accounted' = Accounted
  BY <1>2 DEF Accounted
<1> QED BY <1>1, <1>3
        DEF Aside, DriftInv, PlanFits, CurrentView, Covered, Written, OnlyConfigured, NothingLeft,
            ApplyPcs, LitellmPcs

-----------------------------------------------------------------------------
\* README "idempotent and convergent", converge.py:7-14: unless one of the events
\* in mishaps came before, a state.json that records config.yaml as applied means
\* that no workload is left behind and none runs an old recipe.
THEOREM NoDrift == Spec => []NoSilentDrift
<1>1. Init => DriftInv
  BY DEF Init, DriftInv, PlanFits, CurrentView, Accounted, Up, Covered, Written, OnlyConfigured,
         NothingLeft, ApplyPcs
<1>2. TypeOK /\ DriftInv /\ [Next]_vars => DriftInv'
  BY StepShapes, DriftStarts, DriftFiles, DriftState, DriftWorkloads, DriftCommands, DriftEdits,
     DriftWalks, DriftAside
<1>3. TypeOK /\ DriftInv => NoSilentDrift
  BY SettledMeansWanted DEF DriftInv, Clean, Accounted, NoSilentDrift, NoOrphans, Up, Wanted
<1> QED BY <1>1, <1>2, <1>3, TypeCorrect, PTL DEF Spec
-----------------------------------------------------------------------------
(* A pending restart is not forgotten *)

\* A recipe file is recorded only next to the workload it accounts for, or as the
\* configured one; model stop starts when nothing else is recorded.
Accountable ==
  \A m \in Models : state.files[m] # None =>
    m = config.recipe \/ (state.model # None /\ state.model.name = m)
NothingElse == pc \in ModelStopPcs => \A m \in PrevRecipes(state) : m = config.recipe

LedgerInv == Clean => Accountable /\ NothingElse

LEMMA LedgerHolds == Spec => []LedgerInv
<1>1. Init => LedgerInv
  BY DEF Init, LedgerInv, Accountable, NothingElse, EmptyState, NoFiles, Rels, ModelStopPcs
<1>2. TypeOK /\ CurrentInv /\ LedgerInv /\ [Next]_vars => LedgerInv'
  <2> SUFFICES ASSUME TypeOK, CurrentInv, LedgerInv, [Next]_vars, Clean' PROVE Accountable' /\ NothingElse'
    BY DEF LedgerInv
  <2>a. ASSUME config' = config, state' = state, mishaps \subseteq mishaps',
               pc' \in ModelStopPcs => pc \in ModelStopPcs
        PROVE  Accountable' /\ NothingElse'
    BY <2>a DEF LedgerInv, Clean, Accountable, NothingElse
  <2>1. CASE Starts
    BY <2>a, <2>1 DEF Starts, StartApply, Begin, Note, ModelStopPcs
  <2>2. CASE FileSteps
    BY <2>a, <2>2 DEF FileSteps, WriteFiles, WriteFails, DeleteRemoved, DeleteFails,
                      WriteGatewayFiles, GatewayWriteFails, Return, Goto, ModelStopPcs
  <2>3. CASE StateSteps
    <3>1. pc' = "idle" /\ config' = config /\ NothingElse'
      BY <2>3 DEF StateSteps, SaveApply, RecordStop, ClearState, Adopt, SaveGatewayFiles,
                  SaveState, Return, ModelStopPcs, NothingElse
    <3>2. Clean
      BY <2>3 DEF Clean, DaemonMishaps, StateSteps, SaveApply, RecordStop, ClearState, Adopt,
                  SaveGatewayFiles, SaveState, Note
    <3>3. Accountable /\ NothingElse /\ (pc # "idle" => view = config)
      BY <3>2 DEF LedgerInv, CurrentInv, CurrentView, Clean, DaemonMishaps
    <3>4. config \in Configs /\ \A m \in Models : m \in Rels /\ m \notin GatewayRels
      BY ModelsAssumption DEF TypeOK, Rels, GatewayRels, LitellmRels
    <3>5. \A m \in Models : m \in TargetMapping(config) => m = config.recipe
      BY ModelsAssumption DEF TargetMapping, LitellmRels
    <3>6. CASE SaveApply
      <4>1. state'.files = Render(config)
        BY <3>3, <3>6 DEF SaveApply, SaveState, Note, Clean, DaemonMishaps, StateAfterApply
      <4> QED BY <4>1, <3>1, <3>4, <3>5 DEF Accountable, Render
    <3>7. CASE RecordStop
      <4>1. state'.files = state.files /\ pc \in ModelStopPcs
        BY <3>7 DEF RecordStop, SaveState, Note, Clean, DaemonMishaps, ModelStopPcs
      <4> QED BY <4>1, <3>1, <3>3 DEF Accountable, NothingElse, PrevRecipes
    <3>8. CASE ClearState
      BY <3>1, <3>4, <3>8 DEF ClearState, EmptyState, NoFiles, Accountable
    <3>9. CASE Adopt
      <4>1. state' = AdoptedState(config, disk)
        BY <3>9 DEF Adopt, Note, Clean, DaemonMishaps
      <4> QED BY <4>1, <3>1, <3>4, <3>5 DEF AdoptedState, Accountable
    <3>10. CASE SaveGatewayFiles
      <4>1. state' = WithGatewayFiles(view, state)
        BY <3>10 DEF SaveGatewayFiles, SaveState, Note, Clean, DaemonMishaps
      <4>2. state'.model = state.model /\ \A m \in Models : state'.files[m] = state.files[m]
        BY <4>1, <3>4 DEF WithGatewayFiles
      <4> QED BY <4>2, <3>1, <3>3 DEF Accountable
    <3> QED BY <2>3, <3>1, <3>6, <3>7, <3>8, <3>9, <3>10 DEF StateSteps
  <2>4. CASE WorkloadSteps
    BY <2>a, <2>4 DEF WorkloadSteps, StopStale, WorkloadExits, StopCurrent, EnsureModel, Goto,
                      ModelStopPcs
  <2>5. CASE StartModelStop
    <3>1. (NothingStale /\ mishaps' = mishaps) \/ "stop" \in mishaps'
      BY <2>5 DEF StartModelStop, Note
    <3>2. NothingStale /\ Clean /\ UNCHANGED <<config, state>>
      BY <2>5, <3>1 DEF Clean, DaemonMishaps, StartModelStop, Begin
    <3> QED BY <3>2 DEF LedgerInv, Accountable, NothingElse, NothingStale, StaleRecipes
  <2>6. CASE StopModel \/ StartTeardown \/ TeardownStop \/ ComposeDown
    BY <2>a, <2>6 DEF StopModel, StartTeardown, TeardownStop, ComposeDown, Begin, Goto, Note,
                      ModelStopPcs
  <2>7. CASE Edits
    <3>1. /\ pc = "idle" /\ (Settled \/ Blank) /\ UNCHANGED <<state, pc>> /\ config \in Configs
      BY <2>7 DEF Clean, DaemonMishaps, Edits, EditConfig, Note, Settled, node, TypeOK
    <3>2. CASE Settled
      <4>1. ASSUME NEW m \in Models, state.files[m] # None
            PROVE  state.model # None /\ state.model.name = m
        <5>1. m \in TargetMapping(config) /\ m \in Rels
          BY <3>2, <4>1 DEF Settled, ConvergedState, Render, Rels
        <5>2. HasModel(config) /\ m = config.recipe
          BY <5>1, ModelsAssumption DEF TargetMapping, LitellmRels
        <5>3. [name |-> m, hash |-> CurrentHash(config)] \in ModelEntry
          BY <5>2, <3>1, RenderType DEF ModelEntry
        <5> QED BY <5>2, <5>3, <3>2, NoneAssumption DEF Settled, ConvergedState
      <4> QED BY <4>1, <3>1 DEF Accountable, NothingElse, ModelStopPcs
    <3>3. CASE Blank
      BY <3>1, <3>3 DEF Blank, EmptyState, NoFiles, Rels, Accountable, NothingElse, ModelStopPcs
    <3> QED BY <3>1, <3>2, <3>3
  <2>8. CASE Walks
    BY <2>a, <2>8 DEF Walks, ApplyPcs, ModelStopPcs
  <2>9. CASE Aside
    BY <2>a, <2>9 DEF Aside, LitellmPcs, ModelStopPcs
  <2> QED BY <2>1, <2>2, <2>3, <2>4, <2>5, <2>6, <2>7, <2>8, <2>9, StepShapes DEF OtherCommands
<1> QED BY <1>1, <1>2, TypeCorrect, CurrentHolds, PTL DEF Spec

\* state.py:11-14: a converge that leaves a restart pending records a state from
\* which the next converge of the same configuration still wants the restart.
THEOREM PendingStays == Spec => PendingIsRemembered
<1>1. ASSUME TypeOK, PlanInv, LedgerInv, CurrentInv,
             SaveApply, plan.pending, config = view, mishaps' \subseteq DaemonMishaps
      PROVE  NeedsRestart(config, state', Launches(config, FALSE))
  <2>1. state' = StateAfterApply(view, plan, state) /\ pc = "save" /\ view \in Configs
    BY <1>1 DEF SaveApply, SaveState, Note, DaemonMishaps, TypeOK
  <2>2. PICK noModel \in BOOLEAN :
          plan = BuildPlan(view, state, plan.restart, Launches(view, noModel))
    BY <1>1, <2>1 DEF PlanInv, Planned, ApplyPcs
  <2>3. ~plan.restart /\ NeedsRestart(view, state, Launches(view, noModel))
    <3>1. /\ state \in States /\ plan.restart \in BOOLEAN /\ Launches(view, noModel) \in BOOLEAN
      BY <1>1, <2>1 DEF TypeOK, Plans, ApplyPcs, Launches
    <3>2. plan.pending = (~plan.restart /\ NeedsRestart(view, state, Launches(view, noModel)))
      BY <3>1, <2>1, <2>2, PlanFields
    <3> QED BY <3>2, <1>1
  <2>4. Launches(view, noModel) /\ Launches(view, FALSE)
    BY <2>3 DEF NeedsRestart, StaleRecipes, RestartCurrent, Launches
  <2>5. ~ConvergedAfter(view, plan)
    BY <1>1, <2>3 DEF ConvergedAfter
  <2>6. state'.model = state.model
    BY <2>1, <2>5 DEF StateAfterApply, ModelAfterApply
  <2>7. CASE RestartCurrent(view, state, Launches(view, noModel))
    BY <1>1, <2>4, <2>6, <2>7 DEF NeedsRestart, RestartCurrent
  <2>8. CASE StaleRecipes(view, state, Launches(view, noModel)) # {}
    <3>1. PICK m \in PrevRecipes(state) : m # config.recipe
      BY <1>1, <2>8 DEF StaleRecipes
    <3>2. Clean
      BY <1>1 DEF SaveApply, SaveState, Note, Clean, DaemonMishaps
    <3>3. m \in Models /\ state.model # None /\ state.model.name = m
      BY <1>1, <3>1, <3>2 DEF LedgerInv, Accountable, PrevRecipes
    <3>4. m \in PrevRecipes(state')
      BY <2>6, <3>3 DEF PrevRecipes
    <3>5. m \in StaleRecipes(config, state', Launches(config, FALSE))
      BY <1>1, <2>4, <3>1, <3>4 DEF StaleRecipes
    <3> QED BY <3>5 DEF NeedsRestart
  <2> QED BY <2>3, <2>7, <2>8 DEF NeedsRestart
<1>2. TypeOK /\ PlanInv /\ LedgerInv /\ CurrentInv /\ [Next]_vars
        => [SaveApply /\ plan.pending /\ config = view /\ mishaps' \subseteq DaemonMishaps
              => NeedsRestart(config, state', Launches(config, FALSE))]_vars
  BY <1>1
<1> QED BY <1>2, TypeCorrect, PlanHolds, LedgerHolds, CurrentHolds, PTL DEF Spec, PendingIsRemembered
=============================================================================
