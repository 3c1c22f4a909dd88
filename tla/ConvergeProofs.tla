--------------------------- MODULE ConvergeProofs ---------------------------
(***************************************************************************)
(* Theorems about Converge, for every set of recipes, contents and         *)
(* configurations, every choice of commands and faults, and any number of  *)
(* edits.                                                                  *)
(***************************************************************************)
EXTENDS Converge, TLAPS

-----------------------------------------------------------------------------
(* What the pure operators return *)

\* A render is a tracked set of files, and so is what it leaves on the node.
LEMMA RenderType ==
  ASSUME NEW c \in Configs
  PROVE  /\ c \in View
         /\ Render(c) \in Files
         /\ OnNode(c) \in Files
         /\ \A r \in TargetMapping(c) : Render(c)[r] \in Contents /\ OnNode(c)[r] \in Contents
         /\ HasModel(c) => /\ c.recipe \in Models \cap TargetMapping(c)
                           /\ CurrentHash(c) = c.content[c.recipe]
                           /\ CurrentHash(c) \in Contents
                           /\ OnNode(c)[c.recipe] = Expanded[CurrentHash(c)]
<1>1. c \in View
  BY ConfigsAssumption
<1>2. /\ c.recipe \in Models \cup {None}
      /\ c.content \in [Rels -> Contents]
  BY <1>1 DEF View
<1>3. \A r \in Rels : Render(c)[r] = IF r \in TargetMapping(c) THEN c.content[r] ELSE None
  BY DEF Render
<1>4. Render(c) \in Files
  BY <1>2 DEF Render, Files
<1>5. \A r \in TargetMapping(c) : r \in Rels /\ Render(c)[r] \in Contents
  BY <1>2, <1>3 DEF TargetMapping
<1>6. \A x \in Contents : Expanded[x] \in Contents /\ x # None
  BY ExpandedAssumption, NoneAssumption
<1>7. \A r \in Rels : OnNode(c)[r] = ExpandInstallDir(r, Render(c)[r])
  BY DEF OnNode
<1>8. OnNode(c) \in Files
  <2>1. \A r \in Rels : Render(c)[r] \in Contents \cup {None}
    BY <1>4 DEF Files
  <2>2. \A r \in Rels : ExpandInstallDir(r, Render(c)[r]) \in Contents \cup {None}
    BY <2>1, <1>6 DEF ExpandInstallDir
  <2> QED BY <2>2 DEF OnNode, Files
<1>9. \A r \in TargetMapping(c) : OnNode(c)[r] \in Contents
  BY <1>5, <1>6, <1>7 DEF ExpandInstallDir
<1>10. ASSUME HasModel(c)
       PROVE  /\ c.recipe \in Models \cap TargetMapping(c)
              /\ CurrentHash(c) = c.content[c.recipe]
              /\ CurrentHash(c) \in Contents
              /\ OnNode(c)[c.recipe] = Expanded[CurrentHash(c)]
  <2>1. c.recipe \in Models /\ c.recipe \in Rels
    BY <1>2, <1>10 DEF HasModel, Rels
  <2>2. c.recipe \in TargetMapping(c)
    BY <2>1, <1>10 DEF TargetMapping
  <2>3. CurrentHash(c) = c.content[c.recipe]
    BY <2>1, <2>2, <1>3, <1>10 DEF CurrentHash
  <2>4. CurrentHash(c) = Render(c)[c.recipe] /\ CurrentHash(c) \in Contents
    BY <2>2, <1>5, <1>10 DEF CurrentHash
  <2>5. OnNode(c)[c.recipe] = Expanded[CurrentHash(c)]
    BY <2>1, <2>4, <1>6, <1>7 DEF ExpandInstallDir
  <2> QED BY <2>1, <2>2, <2>3, <2>4, <2>5
<1> QED BY <1>1, <1>4, <1>5, <1>8, <1>9, <1>10

\* A plan is a plan.
LEMMA PlanType ==
  ASSUME NEW c \in Configs, NEW s \in States, NEW restart \in BOOLEAN, NEW launch \in BOOLEAN
  PROVE  BuildPlan(c, s, restart, launch) \in Plans
<1>1. c \in View
  BY RenderType
<1>2. NeedsRestart(c, s, launch) \in BOOLEAN
  BY DEF NeedsRestart, RestartCurrent
<1>3. RestartCurrent(c, s, launch) \in BOOLEAN
  BY DEF RestartCurrent
<1>4. PlannedStops(c, s, restart, launch) \in SUBSET Models
  BY DEF PlannedStops, StaleRecipes, PrevRecipes
<1>5. LitellmTouched(c, s) \in BOOLEAN /\ HotReload(c, s) \in BOOLEAN /\ GatewayRestart(c, s) \in BOOLEAN
  BY <1>1 DEF LitellmTouched, HotReload, GatewayRestart, View
<1>6. DeletedRels(c, s) \in SUBSET LitellmRels
  BY DEF DeletedRels, Removed, Rels
<1>7. ((c.spanning /\ HasModel(c) /\ launch) \/ c.cluster) \in BOOLEAN /\ (HasModel(c) /\ launch) \in BOOLEAN
  BY <1>1 DEF View, HasModel
<1>8. (~restart /\ NeedsRestart(c, s, launch)) \in BOOLEAN /\ (restart /\ RestartCurrent(c, s, launch)) \in BOOLEAN
  OBVIOUS
<1>9. ModelConverged(c, s, launch) \in BOOLEAN
  BY DEF ModelConverged
<1> QED BY <1>2, <1>3, <1>4, <1>5, <1>6, <1>7, <1>8, <1>9 DEF BuildPlan, Plans

\* The recorded states are states.
LEMMA EmptyStateType == EmptyState \in States
BY DEF EmptyState, States, NoFiles, Files

LEMMA AppliedStateType ==
  ASSUME NEW c \in Configs, NEW s \in States, NEW p \in Plans
  PROVE  StateAfterApply(c, p, s) \in States
<1>1. ModelAfterApply(c, p, s.model) \in ModelEntry \cup {None}
  BY RenderType DEF ModelAfterApply, States, ModelEntry
<1> QED BY <1>1, RenderType DEF StateAfterApply, States

LEMMA StoppedStateType ==
  ASSUME NEW s \in States
  PROVE  [files |-> s.files, model |-> None] \in States
BY DEF States

LEMMA AdoptedStateType ==
  ASSUME NEW c \in Configs, NEW d \in Files
  PROVE  AdoptedState(c, d) \in States
<1>1. [r \in Rels |-> IF r \in TargetMapping(c) THEN d[r] ELSE None] \in Files
  BY DEF Files
<1>2. (IF HasModel(c) /\ d[c.recipe] # None
       THEN [name |-> c.recipe, hash |-> d[c.recipe]] ELSE None) \in ModelEntry \cup {None}
  <2>1. HasModel(c) => c.recipe \in Models /\ d[c.recipe] \in Contents \cup {None}
    BY RenderType DEF Files, Rels
  <2> QED BY <2>1 DEF ModelEntry
<1> QED BY <1>1, <1>2 DEF AdoptedState, States

LEMMA GatewayStateType ==
  ASSUME NEW c \in Configs, NEW s \in States
  PROVE  WithGatewayFiles(c, s) \in States
BY RenderType DEF WithGatewayFiles, States, Files

\* What a container reads when it boots.
LEMMA SnapshotType ==
  ASSUME NEW d \in Files
  PROVE  Snapshot(d) \in Snapshots /\ d[Prometheus] \in Contents \cup {None}
BY DEF Snapshot, Snapshots, Files, Rels, LitellmRels, GwConfig, ModelConfig, ExtraModels,
       Prometheus

-----------------------------------------------------------------------------
(* Type correctness *)

\* Saving a state, torn or not, ends the command with a state.
LEMMA SaveType ==
  ASSUME NEW new \in States, SaveState(new), mishaps \subseteq Mishaps
  PROVE  /\ state' \in States
         /\ pc' = "idle" /\ view' = None /\ plan' = None /\ todo' = {}
         /\ mishaps' \subseteq Mishaps
BY EmptyStateType DEF SaveState, Return, Note, Mishaps, DaemonMishaps

\* Every variable keeps its type, whatever the operator and the environment do.
THEOREM TypeCorrect == Spec => []TypeOK
<1>1. Init => TypeOK
  BY EmptyStateType, MaxEditsAssumption, RenderType
     DEF Init, TypeOK, NoFiles, Files, EmptyState, States, Pcs, Mishaps, ApplyPcs
<1>2. TypeOK /\ [Next]_vars => TypeOK'
  <2> SUFFICES ASSUME TypeOK, [Next]_vars PROVE TypeOK'
    OBVIOUS
  <2> USE DEF TypeOK
  <2> DEFINE NextPcs == {"mesh", "stop", "restop", "compose", "reload", "bounce", "health",
                         "ensure", "probe", "delete", "save"}
  <2>a. ASSUME NEW next \in NextPcs, pc \in ApplyPcs, Goto(next)
        PROVE  /\ pc' \in ApplyPcs /\ pc' \in Pcs
               /\ view' \in Configs /\ plan' \in Plans /\ todo' \subseteq Models
    BY <2>a DEF Goto, ApplyPcs, Pcs
  <2>b. ASSUME Return
        PROVE  /\ pc' \in Pcs \ ApplyPcs
               /\ pc' = "idle" /\ view' = None /\ plan' = None /\ todo' = {}
    BY <2>b DEF Return, Pcs, ApplyPcs, ModelStopPcs, TeardownPcs, LitellmPcs
  <2>c. ASSUME NEW next \in ModelStopPcs \cup TeardownPcs \cup LitellmPcs,
               pc \notin ApplyPcs \cup {"idle"}, Goto(next)
        PROVE  /\ pc' \in Pcs \ ApplyPcs
               /\ view' \in Configs /\ plan' \in Plans \cup {None} /\ todo' \subseteq Models
    BY <2>c DEF Goto, Pcs, ApplyPcs, ModelStopPcs, TeardownPcs, LitellmPcs
  <2>d. view \in Configs => OnNode(view) \in Files
    BY RenderType
  <2>e. Snapshot(disk) \in Snapshots /\ disk[Prometheus] \in Contents \cup {None}
    BY SnapshotType
  <2>1. ASSUME NEW restart \in BOOLEAN, NEW noModel \in BOOLEAN, StartApply(restart, noModel) PROVE TypeOK'
    <3>1. Launches(config, noModel) \in BOOLEAN
      BY DEF Launches
    <3>2. /\ plan' = BuildPlan(config, state, restart, Launches(config, noModel))
          /\ todo' = plan'.stale
      BY <2>1 DEF StartApply
    <3>3. plan' \in Plans
      BY <3>1, <3>2, PlanType
    <3>4. todo' \subseteq Models
      BY <3>2, <3>3 DEF Plans
    <3>5. pc' = "write" /\ view' = config /\ UNCHANGED <<config, state, node, edits>>
      BY <2>1 DEF StartApply, Begin
    <3>6. mishaps' \subseteq Mishaps
      BY <2>1 DEF StartApply, Note, Mishaps, DaemonMishaps
    <3> QED BY <3>5, <3>6, <3>3, <3>4 DEF Pcs, ApplyPcs, node
  <2>2. ASSUME RefuseApply PROVE TypeOK'
    BY <2>2, <2>b DEF RefuseApply, node
  <2>3. ASSUME WriteFiles PROVE TypeOK'
    BY <2>3, <2>a, <2>d DEF WriteFiles, WriteSome, Files, ApplyPcs, node
  <2>4. ASSUME Mesh PROVE TypeOK'
    BY <2>4, <2>a DEF Mesh, ApplyPcs, node
  <2>5. ASSUME StopsDone PROVE TypeOK'
    BY <2>5, <2>a DEF StopsDone, ApplyPcs, node
  <2>6. ASSUME VerifyGateway PROVE TypeOK'
    BY <2>6, <2>a DEF VerifyGateway, ApplyPcs, node
  <2>7. ASSUME ProbeModel PROVE TypeOK'
    BY <2>7, <2>a DEF ProbeModel, ApplyPcs, node
  <2>8. ASSUME NEW m \in Models, StopStale(m) PROVE TypeOK'
    BY <2>8 DEF StopStale, ApplyPcs, node
  <2>9. ASSUME StopCurrent PROVE TypeOK'
    BY <2>9, <2>a DEF StopCurrent, ApplyPcs, node
  <2>10. ASSUME ComposeUp PROVE TypeOK'
    BY <2>10, <2>a, <2>e DEF ComposeUp, UpOrRecreated, ApplyPcs, node
  <2>11. ASSUME ReloadPrometheus PROVE TypeOK'
    BY <2>11, <2>a, <2>e DEF ReloadPrometheus, Note, Mishaps, DaemonMishaps, ApplyPcs, node
  <2>12. ASSUME RestartGateway PROVE TypeOK'
    BY <2>12, <2>a, <2>e DEF RestartGateway, Note, Mishaps, DaemonMishaps, ApplyPcs, node
  <2>13. ASSUME EnsureModel PROVE TypeOK'
    BY <2>13, <2>a DEF EnsureModel, Files, Rels, ApplyPcs, node
  <2>14. ASSUME DeleteRemoved PROVE TypeOK'
    BY <2>14, <2>a DEF DeleteRemoved, DeleteSome, Files, ApplyPcs, node
  <2>15. ASSUME SaveApply PROVE TypeOK'
    <3>1. StateAfterApply(view, plan, state) \in States
      BY <2>15, AppliedStateType DEF SaveApply, ApplyPcs, Pcs, LitellmPcs
    <3> QED BY <2>15, <3>1, SaveType DEF SaveApply, ApplyPcs, Pcs, node
  <2>16. ASSUME WriteFails PROVE TypeOK'
    BY <2>16, <2>b, <2>d DEF WriteFails, WriteSome, Files
  <2>17. ASSUME MeshFails PROVE TypeOK'
    BY <2>17, <2>b DEF MeshFails, CommandFails, node
  <2>18. ASSUME StopFails PROVE TypeOK'
    BY <2>18, <2>b DEF StopFails, CommandFails, node
  <2>19. ASSUME ComposeFails PROVE TypeOK'
    BY <2>19, <2>b DEF ComposeFails, CommandFails, node
  <2>20. ASSUME VerifyFails PROVE TypeOK'
    BY <2>20, <2>b DEF VerifyFails, node
  <2>21. ASSUME ProbeFails PROVE TypeOK'
    BY <2>21, <2>b DEF ProbeFails, node
  <2>22. ASSUME LitellmFails PROVE TypeOK'
    BY <2>22, <2>b DEF LitellmFails, node
  <2>23. ASSUME StopModelFails PROVE TypeOK'
    BY <2>23, <2>b DEF StopModelFails, CommandFails, node
  <2>24. ASSUME StartModelStop PROVE TypeOK'
    BY <2>24 DEF StartModelStop, Begin, Pcs, Note, Mishaps, DaemonMishaps, ApplyPcs, ModelStopPcs, TeardownPcs, LitellmPcs, node
  <2>25. ASSUME StopModel PROVE TypeOK'
    BY <2>25, <2>c DEF StopModel, StopConfigured, ApplyPcs, ModelStopPcs, TeardownPcs, LitellmPcs, node
  <2>26. ASSUME RecordStop PROVE TypeOK'
    <3>1. [files |-> state.files, model |-> None] \in States
      BY <2>26, StoppedStateType DEF RecordStop, ApplyPcs, Pcs, LitellmPcs
    <3> QED BY <2>26, <3>1, SaveType DEF RecordStop, ApplyPcs, Pcs, node
  <2>27. ASSUME StartTeardown PROVE TypeOK'
    BY <2>27 DEF StartTeardown, Begin, Pcs, Note, Mishaps, DaemonMishaps, ApplyPcs, ModelStopPcs, TeardownPcs, LitellmPcs, node
  <2>28. ASSUME TeardownStop PROVE TypeOK'
    BY <2>28, <2>c DEF TeardownStop, StopConfigured, Note, Mishaps, DaemonMishaps, ApplyPcs, ModelStopPcs, TeardownPcs, LitellmPcs, node
  <2>29. ASSUME ComposeDown PROVE TypeOK'
    BY <2>29, <2>c DEF ComposeDown, Note, Mishaps, DaemonMishaps, ApplyPcs, ModelStopPcs, TeardownPcs, LitellmPcs, node
  <2>30. ASSUME ClearState PROVE TypeOK'
    BY <2>30, <2>b, EmptyStateType DEF ClearState, node
  <2>31. ASSUME Adopt PROVE TypeOK'
    BY <2>31, <2>b, EmptyStateType, AdoptedStateType DEF Adopt, Note, Mishaps, DaemonMishaps, node
  <2>32. ASSUME StartLitellmRestart PROVE TypeOK'
    BY <2>32 DEF StartLitellmRestart, Begin, Pcs, ApplyPcs, ModelStopPcs, TeardownPcs, LitellmPcs, node
  <2>33. ASSUME WriteGatewayFiles PROVE TypeOK'
    BY <2>33, <2>c, <2>d DEF WriteGatewayFiles, WriteSome, Files, ApplyPcs, ModelStopPcs, TeardownPcs, LitellmPcs, node
  <2>34. ASSUME LitellmRestart PROVE TypeOK'
    BY <2>34, <2>c, <2>e DEF LitellmRestart, ApplyPcs, ModelStopPcs, TeardownPcs, LitellmPcs, node
  <2>35. ASSUME LitellmHealthy PROVE TypeOK'
    BY <2>35, <2>c DEF LitellmHealthy, ApplyPcs, ModelStopPcs, TeardownPcs, LitellmPcs, node
  <2>36. ASSUME SaveGatewayFiles PROVE TypeOK'
    <3>1. WithGatewayFiles(view, state) \in States
      BY <2>36, GatewayStateType DEF SaveGatewayFiles, ApplyPcs, Pcs, LitellmPcs
    <3> QED BY <2>36, <3>1, SaveType DEF SaveGatewayFiles, ApplyPcs, Pcs, node
  <2>37. ASSUME NEW c \in Configs, EditConfig(c) PROVE TypeOK'
    BY <2>37, MaxEditsAssumption DEF EditConfig, Note, Mishaps, DaemonMishaps, node
  <2>38. ASSUME Crash PROVE TypeOK'
    BY <2>38, <2>b DEF Crash, Note, Mishaps, DaemonMishaps, node
  <2>39. ASSUME NEW m \in Models, WorkloadExits(m) PROVE TypeOK'
    BY <2>39 DEF WorkloadExits
  <2>40. ASSUME ContainersReboot PROVE TypeOK'
    BY <2>40, <2>e DEF ContainersReboot
  <2>42. ASSUME DeleteFails PROVE TypeOK'
    BY <2>42, <2>b DEF DeleteFails, DeleteSome, Files
  <2>43. ASSUME GatewayWriteFails PROVE TypeOK'
    BY <2>43, <2>b, <2>d DEF GatewayWriteFails, WriteSome, Files, ApplyPcs
  <2>41. ASSUME UNCHANGED vars PROVE TypeOK'
    BY <2>41 DEF vars
  <2> QED
    BY <2>1, <2>2, <2>3, <2>4, <2>5, <2>6, <2>7, <2>8, <2>9, <2>10, <2>11, <2>12, <2>13, <2>14, <2>15, <2>16, <2>17, <2>18, <2>19, <2>20, <2>21, <2>22, <2>23, <2>24, <2>25, <2>26, <2>27, <2>28, <2>29, <2>30, <2>31, <2>32, <2>33, <2>34, <2>35, <2>36, <2>37, <2>38, <2>39, <2>40, <2>41, <2>42, <2>43
       DEF Next, Apply, ApplyFails, ModelStop, Teardown, Litellm, Environment
<1> QED BY <1>1, <1>2, PTL DEF Spec

-----------------------------------------------------------------------------
(* Kinds of steps.  Most actions touch neither the files, nor state.json,  *)
(* nor a workload: StepShapes says so once, and leaves the proofs below    *)
(* with the actions that do.                                               *)

\* The control points at which a stale workload may still have to be stopped,
\* and those at which the current one may.
Stopping   == {"write", "mesh", "stop"}
Restopping == Stopping \cup {"restop"}

\* A step that moves an apply on, or leaves it where it is.
Walks ==
  /\ UNCHANGED <<config, disk, state, running, view, plan, todo>>
  /\ mishaps \subseteq mishaps'
  /\ \/ pc' = pc
     \/ /\ pc \in ApplyPcs \ {"write", "restop"} /\ pc' \in ApplyPcs \ {"write"}
        /\ pc' \in Stopping => pc \in Stopping
        /\ pc \in Stopping => pc' \in Restopping
        /\ pc' = "restop" => pc = "stop" /\ todo = {}

\* A step of `litellm restart`, or one that ends a command and records nothing.
Aside ==
  /\ UNCHANGED <<config, disk, state, running>>
  /\ mishaps \subseteq mishaps'
  /\ pc' \in LitellmPcs \cup {"idle"}
  /\ pc' # "idle" => view' = config \/ (pc # "idle" /\ view' = view)

\* The steps that start, write, stop, run, delete or record something.
Starts == \E restart, noModel \in BOOLEAN : StartApply(restart, noModel)

FileSteps  == WriteFiles \/ WriteFails \/ DeleteRemoved \/ DeleteFails
              \/ WriteGatewayFiles \/ GatewayWriteFails
StateSteps == SaveApply \/ RecordStop \/ ClearState \/ Adopt \/ SaveGatewayFiles
WorkloadSteps == \/ \E m \in Models : StopStale(m) \/ WorkloadExits(m)
                 \/ StopCurrent \/ EnsureModel
OtherCommands == StartModelStop \/ StopModel \/ StartTeardown \/ TeardownStop \/ ComposeDown
Edits      == \E c \in Configs : EditConfig(c)

\* Every step of the system is one of these.
LEMMA StepShapes ==
  ASSUME TypeOK, [Next]_vars
  PROVE  \/ Starts \/ FileSteps \/ StateSteps \/ WorkloadSteps \/ OtherCommands \/ Edits
         \/ Walks \/ Aside
<1> USE DEF ApplyPcs, LitellmPcs, Stopping, Restopping
<1>1. CASE RefuseApply
  BY <1>1 DEF RefuseApply, Return, Aside, node
<1>2. CASE Mesh
  BY <1>2 DEF Mesh, Goto, Walks, node
<1>3. CASE StopsDone
  BY <1>3 DEF StopsDone, Goto, Walks, node
<1>4. CASE ComposeUp
  BY <1>4 DEF ComposeUp, Goto, Walks
<1>5. CASE ReloadPrometheus
  BY <1>5 DEF ReloadPrometheus, Goto, Note, Walks
<1>6. CASE RestartGateway
  BY <1>6 DEF RestartGateway, Goto, Note, Walks
<1>7. CASE VerifyGateway
  BY <1>7 DEF VerifyGateway, Goto, Walks, node
<1>8. CASE ProbeModel
  BY <1>8 DEF ProbeModel, Goto, Walks, node
<1>9. CASE MeshFails \/ StopFails \/ ComposeFails \/ StopModelFails
  BY <1>9 DEF MeshFails, StopFails, ComposeFails, StopModelFails, CommandFails, Return, Aside, node
<1>10. CASE VerifyFails
  BY <1>10 DEF VerifyFails, Return, Aside, node
<1>11. CASE ProbeFails
  BY <1>11 DEF ProbeFails, Return, Aside, node
<1>12. CASE StartLitellmRestart
  BY <1>12 DEF StartLitellmRestart, Begin, Aside, node
<1>13. CASE LitellmRestart
  BY <1>13 DEF LitellmRestart, Goto, Aside
<1>14. CASE LitellmHealthy
  BY <1>14 DEF LitellmHealthy, Goto, Aside, node
<1>15. CASE LitellmFails
  BY <1>15 DEF LitellmFails, Return, Aside, node
<1>16. CASE Crash
  BY <1>16 DEF Crash, Return, Note, Aside, node
<1>17. CASE ContainersReboot
  BY <1>17 DEF ContainersReboot, Walks
<1>18. CASE UNCHANGED vars
  BY <1>18 DEF vars, Walks
<1> QED
  BY <1>1, <1>2, <1>3, <1>4, <1>5, <1>6, <1>7, <1>8, <1>9, <1>10, <1>11, <1>12, <1>13, <1>14,
     <1>15, <1>16, <1>17, <1>18
     DEF Next, Apply, ApplyFails, ModelStop, Teardown, Litellm, Environment,
         Starts, FileSteps, StateSteps, WorkloadSteps, OtherCommands, Edits

-----------------------------------------------------------------------------
(* What a plan asks for *)

\* The fields of a plan that the proofs look at.
LEMMA PlanFields ==
  ASSUME NEW c \in Configs, NEW s \in States, NEW restart \in BOOLEAN, NEW launch \in BOOLEAN,
         NEW p, p = BuildPlan(c, s, restart, launch)
  PROVE  /\ p.restart = restart
         /\ p.pending = (~restart /\ NeedsRestart(c, s, launch))
         /\ p.stale = PlannedStops(c, s, restart, launch)
         /\ p.restop = (restart /\ RestartCurrent(c, s, launch))
         /\ p.ensure = (HasModel(c) /\ launch)
         /\ p.converged = ModelConverged(c, s, launch)
BY DEF BuildPlan

\* What a plan stops was recorded, under restart only.
LEMMA PlanStops ==
  ASSUME NEW c \in Configs, NEW s \in States, NEW restart \in BOOLEAN, NEW launch \in BOOLEAN,
         NEW p, p = BuildPlan(c, s, restart, launch)
  PROVE  /\ p.stale \subseteq PrevRecipes(s)
         /\ p.restop => HasModel(c) /\ c.recipe \in PrevRecipes(s)
         /\ ~restart => p.stale = {} /\ ~p.restop
         /\ p.ensure => HasModel(c)
<1>1. p.restop => s.model # None /\ s.model.name = c.recipe
  BY PlanFields DEF RestartCurrent
<1>2. s.model # None => s.model.name \in Models /\ s.model.name # None
  BY NoneAssumption DEF States, ModelEntry
<1>3. p.stale \subseteq PrevRecipes(s) /\ (~restart => p.stale = {})
  <2>1. p.stale = PlannedStops(c, s, restart, launch)
    BY PlanFields
  <2>2. StaleRecipes(c, s, launch) \subseteq PrevRecipes(s)
    BY DEF StaleRecipes
  <2> QED BY <2>1, <2>2 DEF PlannedStops
<1>4. (~restart => ~p.restop) /\ (p.ensure => HasModel(c))
  BY PlanFields
<1>5. p.restop => HasModel(c) /\ c.recipe \in PrevRecipes(s)
  BY <1>1, <1>2 DEF PrevRecipes, HasModel
<1> QED BY <1>3, <1>4, <1>5

-----------------------------------------------------------------------------
(* What a running command knows *)

\* The plan of a running apply is the one made of the state as it still is.
Planned ==
  \E noModel \in BOOLEAN :
    plan = BuildPlan(view, state, plan.restart, Launches(view, noModel))

PlanInv == pc \in ApplyPcs => Planned

LEMMA PlanHolds == Spec => []PlanInv
<1>1. Init => PlanInv
  BY DEF Init, PlanInv, ApplyPcs
<1>2. TypeOK /\ PlanInv /\ [Next]_vars => PlanInv'
  <2> SUFFICES ASSUME TypeOK, PlanInv, [Next]_vars PROVE PlanInv'
    OBVIOUS
  <2>1. CASE Starts
    <3>1. PICK restart \in BOOLEAN, noModel \in BOOLEAN : StartApply(restart, noModel)
      BY <2>1 DEF Starts
    <3>2. /\ config \in Configs /\ state \in States
          /\ Launches(config, noModel) \in BOOLEAN
          /\ plan' = BuildPlan(config, state, restart, Launches(config, noModel))
          /\ pc' = "write" /\ view' = config /\ state' = state
      BY <3>1 DEF TypeOK, Launches, StartApply, Begin
    <3>3. plan'.restart = restart
      BY <3>2, PlanFields
    <3> QED BY <3>1, <3>2, <3>3 DEF PlanInv, Planned
  <2>2. CASE StateSteps
    BY <2>2 DEF StateSteps, SaveApply, RecordStop, ClearState, Adopt, SaveGatewayFiles,
                SaveState, Return, PlanInv, ApplyPcs
  <2>3. ASSUME pc' \in ApplyPcs => pc \in ApplyPcs /\ UNCHANGED <<state, view, plan>>
        PROVE  PlanInv'
    BY <2>3 DEF PlanInv, Planned
  <2>4. CASE FileSteps
    BY <2>3, <2>4 DEF FileSteps, WriteFiles, WriteFails, DeleteRemoved, DeleteFails,
                      WriteGatewayFiles, GatewayWriteFails, Return, Goto, ApplyPcs
  <2>5. CASE WorkloadSteps
    <3>1. pc' \in ApplyPcs => pc \in ApplyPcs
      BY <2>5 DEF WorkloadSteps, StopStale, WorkloadExits, StopCurrent, EnsureModel, Goto, ApplyPcs
    <3>2. UNCHANGED <<state, view, plan>>
      BY <2>5 DEF WorkloadSteps, StopStale, WorkloadExits, StopCurrent, EnsureModel, Goto
    <3> QED BY <2>3, <3>1, <3>2
  <2>6. CASE OtherCommands
    BY <2>3, <2>6 DEF OtherCommands, StartModelStop, StopModel, StartTeardown, TeardownStop,
                      ComposeDown, Begin, Goto, ApplyPcs
  <2>7. CASE Edits
    BY <2>3, <2>7 DEF Edits, EditConfig
  <2>8. CASE Walks
    BY <2>3, <2>8 DEF Walks
  <2>9. CASE Aside
    BY <2>3, <2>9 DEF Aside, ApplyPcs, LitellmPcs
  <2> QED BY <2>1, <2>2, <2>4, <2>5, <2>6, <2>7, <2>8, <2>9, StepShapes
<1> QED BY <1>1, <1>2, TypeCorrect, PTL DEF Spec

\* Unless config.yaml is edited under it, a command works from the current one.
CurrentView == pc # "idle" => view = config
CurrentInv  == "edit" \notin mishaps => CurrentView

LEMMA CurrentHolds == Spec => []CurrentInv
<1>1. Init => CurrentInv
  BY DEF Init, CurrentInv, CurrentView
<1>2. TypeOK /\ CurrentInv /\ [Next]_vars => CurrentInv'
  <2> SUFFICES ASSUME TypeOK, CurrentInv, [Next]_vars PROVE CurrentInv'
    OBVIOUS
  <2>1. ASSUME config' = config, mishaps \subseteq mishaps',
               pc' # "idle" => view' = config \/ (pc # "idle" /\ view' = view)
        PROVE  CurrentInv'
    BY <2>1 DEF CurrentInv, CurrentView
  <2>2. CASE Edits
    BY <2>2 DEF Edits, EditConfig, Note, Settled, CurrentInv, CurrentView
  <2>3. CASE Starts
    BY <2>1, <2>3 DEF Starts, StartApply, Begin, Note
  <2>4. CASE FileSteps
    BY <2>1, <2>4 DEF FileSteps, WriteFiles, WriteFails, DeleteRemoved, DeleteFails,
                      WriteGatewayFiles, GatewayWriteFails, Return, Goto
  <2>5. CASE StateSteps
    BY <2>1, <2>5 DEF StateSteps, SaveApply, RecordStop, ClearState, Adopt, SaveGatewayFiles,
                      SaveState, Return, Note
  <2>6. CASE WorkloadSteps
    <3>1. UNCHANGED <<config, view, mishaps>> /\ (pc' # "idle" => pc # "idle")
      BY <2>6 DEF WorkloadSteps, StopStale, WorkloadExits, StopCurrent, EnsureModel, Goto
    <3> QED BY <2>1, <3>1
  <2>7. CASE OtherCommands
    BY <2>1, <2>7 DEF OtherCommands, StartModelStop, StopModel, StartTeardown, TeardownStop,
                      ComposeDown, Begin, Goto, Note
  <2>8. CASE Walks
    BY <2>1, <2>8 DEF Walks, ApplyPcs
  <2>9. CASE Aside
    BY <2>1, <2>9 DEF Aside
  <2> QED BY <2>2, <2>3, <2>4, <2>5, <2>6, <2>7, <2>8, <2>9, StepShapes
<1> QED BY <1>1, <1>2, TypeCorrect, PTL DEF Spec

-----------------------------------------------------------------------------
(* A recipe file stays for as long as its workload may have to be stopped *)

\* No step deletes a recipe file.
LEMMA RecipeFilesStay ==
  ASSUME TypeOK, FileSteps, NEW m \in Models, disk[m] # None
  PROVE  disk'[m] # None
<1>1. m \in Rels /\ m \notin LitellmRels
  BY ModelsAssumption DEF Rels
<1>2. ASSUME NEW rels, WriteSome(rels), view \in Configs PROVE disk'[m] # None
  <2>1. disk'[m] = IF m \in rels \cap TargetMapping(view) THEN OnNode(view)[m] ELSE disk[m]
    BY <1>1, <1>2 DEF WriteSome
  <2> QED BY <2>1, <1>2, RenderType, NoneAssumption
<1>3. pc # "idle" => view \in Configs
  BY DEF TypeOK
<1>4. CASE DeleteRemoved \/ DeleteFails
  <2>1. plan.removed \subseteq LitellmRels
    BY <1>4 DEF DeleteRemoved, DeleteFails, TypeOK, Plans, ApplyPcs
  <2> QED BY <2>1, <1>1, <1>4 DEF DeleteRemoved, DeleteFails, DeleteSome
<1> QED BY <1>2, <1>3, <1>4 DEF FileSteps, WriteFiles, WriteFails, WriteGatewayFiles, GatewayWriteFails

\* StopFindsItsRecipe, made inductive: what is planned to be stopped has its
\* recipe from the start, and so has what will be recorded at the end.
RecipesInv ==
  /\ \A m \in PrevRecipes(state) : disk[m] # None
  /\ pc \in Stopping => \A m \in todo : disk[m] # None
  /\ pc \in Restopping /\ plan.restop => HasModel(view) /\ disk[view.recipe] # None
  /\ pc \in ApplyPcs \ {"write"} /\ HasModel(view) => disk[view.recipe] # None

\* A recorded recipe was recorded before, or has its file on the node.
LEMMA RecordedRecipes ==
  ASSUME TypeOK, RecipesInv, StateSteps, NEW m \in PrevRecipes(state')
  PROVE  m \in PrevRecipes(state) \/ disk[m] # None
<1>1. m \in Models /\ m \in Rels /\ m \notin LitellmRels
  BY ModelsAssumption DEF PrevRecipes, Rels
<1>2. m \notin PrevRecipes(EmptyState)
  BY <1>1 DEF PrevRecipes, EmptyState, NoFiles
<1>3. CASE SaveApply
  <2>1. pc = "save" /\ view \in Configs
    BY <1>3 DEF SaveApply, TypeOK, ApplyPcs
  <2>2. state' = EmptyState \/ state' = StateAfterApply(view, plan, state)
    BY <1>3 DEF SaveApply, SaveState
  <2>3. ASSUME m \in PrevRecipes(StateAfterApply(view, plan, state)), m \notin PrevRecipes(state)
        PROVE  HasModel(view) /\ m = view.recipe
    <3>1. Render(view)[m] # None => HasModel(view) /\ m = view.recipe
      BY <1>1, ModelsAssumption DEF Render, TargetMapping, LitellmRels, HasModel
    <3>2. CASE ConvergedAfter(view, plan)
      BY <2>3, <3>1, <3>2 DEF PrevRecipes, StateAfterApply, ModelAfterApply
    <3>3. CASE ~ConvergedAfter(view, plan)
      BY <2>3, <3>1, <3>3 DEF PrevRecipes, StateAfterApply, ModelAfterApply
    <3> QED BY <3>2, <3>3
  <2> QED BY <1>2, <2>1, <2>2, <2>3 DEF RecipesInv, ApplyPcs
<1>4. CASE RecordStop
  <2>1. state' = EmptyState \/ state' = [files |-> state.files, model |-> None]
    BY <1>4 DEF RecordStop, SaveState
  <2> QED BY <1>2, <2>1 DEF PrevRecipes
<1>5. CASE ClearState
  BY <1>2, <1>5 DEF ClearState
<1>6. CASE Adopt
  <2>1. state' = EmptyState \/ state' = AdoptedState(config, disk)
    BY <1>6 DEF Adopt
  <2>2. m \in PrevRecipes(AdoptedState(config, disk)) => disk[m] # None
    BY <1>1 DEF PrevRecipes, AdoptedState
  <2> QED BY <1>2, <2>1, <2>2
<1>7. CASE SaveGatewayFiles
  <2>1. state' = EmptyState \/ state' = WithGatewayFiles(view, state)
    BY <1>7 DEF SaveGatewayFiles, SaveState
  <2>2. m \in PrevRecipes(WithGatewayFiles(view, state)) => m \in PrevRecipes(state)
    BY <1>1 DEF PrevRecipes, WithGatewayFiles, GatewayRels, LitellmRels
  <2> QED BY <1>2, <2>1, <2>2
<1> QED BY <1>3, <1>4, <1>5, <1>6, <1>7 DEF StateSteps

\* converge.py, apply.py:126-130: whatever is edited, adopted, stopped or killed,
\* a stop that a plan asks for finds the recipe file it names.
THEOREM RecipesStay == Spec => []StopFindsItsRecipe
<1>1. Init => RecipesInv
  BY DEF Init, RecipesInv, EmptyState, NoFiles, PrevRecipes, Stopping, Restopping, ApplyPcs, Rels
<1>2. TypeOK /\ RecipesInv /\ [Next]_vars => RecipesInv'
  <2> SUFFICES ASSUME TypeOK, RecipesInv, [Next]_vars PROVE RecipesInv'
    OBVIOUS
  <2> DEFINE Has(m) == disk[m] # None
  <2>1. CASE Starts
    <3>1. PICK restart \in BOOLEAN, noModel \in BOOLEAN : StartApply(restart, noModel)
      BY <2>1 DEF Starts
    <3>2. /\ config \in Configs /\ state \in States
          /\ Launches(config, noModel) \in BOOLEAN
          /\ plan' = BuildPlan(config, state, restart, Launches(config, noModel))
          /\ todo' = plan'.stale
          /\ pc' = "write" /\ view' = config /\ UNCHANGED <<disk, state>>
      BY <3>1 DEF TypeOK, Launches, StartApply, Begin, node
    <3>3. /\ plan'.stale \subseteq PrevRecipes(state)
          /\ plan'.restop => HasModel(config) /\ config.recipe \in PrevRecipes(state)
      BY <3>2, PlanStops
    <3> QED BY <3>2, <3>3 DEF RecipesInv
  <2>2. CASE FileSteps
    <3>1. \A m \in Models : disk[m] # None => disk'[m] # None
      BY <2>2, RecipeFilesStay
    <3>2. state' = state /\ PrevRecipes(state) \subseteq Models
      BY <2>2 DEF FileSteps, WriteFiles, WriteFails, DeleteRemoved, DeleteFails,
                  WriteGatewayFiles, GatewayWriteFails, PrevRecipes
    <3>3. pc # "idle" => view \in Configs /\ (HasModel(view) => view.recipe \in Models)
      BY RenderType DEF TypeOK
    <3>4. CASE WriteFiles
      <4>1. pc = "write" /\ pc' = "mesh" /\ UNCHANGED <<view, plan, todo>> /\ WriteSome(Rels)
        BY <3>4 DEF WriteFiles, Goto
      <4>2. HasModel(view) => disk'[view.recipe] # None
        <5>1. HasModel(view) => view.recipe \in Rels \cap TargetMapping(view)
          BY <3>3, <4>1, RenderType DEF Rels
        <5>2. HasModel(view) => disk'[view.recipe] = OnNode(view)[view.recipe]
          BY <4>1, <5>1 DEF WriteSome
        <5> QED BY <3>3, <4>1, <5>1, <5>2, RenderType, NoneAssumption
      <4> QED BY <3>1, <3>2, <3>3, <4>1, <4>2 DEF RecipesInv, Stopping, Restopping, TypeOK
    <3>5. CASE WriteFails \/ WriteGatewayFiles \/ DeleteFails \/ GatewayWriteFails
      <4>1. pc' \notin ApplyPcs
        BY <3>5 DEF WriteFails, WriteGatewayFiles, DeleteFails, GatewayWriteFails, Return, Goto,
                    ApplyPcs
      <4> QED BY <3>1, <3>2, <4>1 DEF RecipesInv, Stopping, Restopping, ApplyPcs
    <3>6. CASE DeleteRemoved
      <4>1. pc = "delete" /\ pc' = "save" /\ UNCHANGED view
        BY <3>6 DEF DeleteRemoved, Goto
      <4> QED BY <3>1, <3>2, <3>3, <4>1 DEF RecipesInv, Stopping, Restopping, ApplyPcs
    <3> QED BY <2>2, <3>4, <3>5, <3>6 DEF FileSteps
  <2>3. CASE StateSteps
    <3>1. disk' = disk /\ pc' = "idle"
      BY <2>3 DEF StateSteps, SaveApply, RecordStop, ClearState, Adopt, SaveGatewayFiles,
                  SaveState, Return, node
    <3> QED BY <2>3, <3>1, RecordedRecipes DEF RecipesInv, Stopping, Restopping, ApplyPcs
  <2>4. CASE WorkloadSteps
    <3>1. ASSUME NEW m \in Models, StopStale(m) PROVE RecipesInv'
      BY <3>1 DEF StopStale, RecipesInv
    <3>2. ASSUME NEW m \in Models, WorkloadExits(m) PROVE RecipesInv'
      BY <3>2 DEF WorkloadExits, RecipesInv
    <3>3. CASE StopCurrent
      BY <3>3 DEF StopCurrent, Goto, RecipesInv, Stopping, Restopping, ApplyPcs
    <3>4. CASE EnsureModel
      BY <3>4 DEF EnsureModel, Goto, RecipesInv, Stopping, Restopping, ApplyPcs
    <3> QED BY <2>4, <3>1, <3>2, <3>3, <3>4 DEF WorkloadSteps
  <2>5. CASE OtherCommands
    <3>1. UNCHANGED <<disk, state>> /\ pc' \in ModelStopPcs \cup TeardownPcs
      BY <2>5 DEF OtherCommands, StartModelStop, StopModel, StartTeardown, TeardownStop,
                  ComposeDown, Begin, Goto, ModelStopPcs, TeardownPcs, node
    <3> QED BY <3>1 DEF RecipesInv, Stopping, Restopping, ApplyPcs, ModelStopPcs, TeardownPcs
  <2>6. CASE Edits
    BY <2>6 DEF Edits, EditConfig, RecipesInv, node
  <2>7. CASE Walks
    BY <2>7 DEF Walks, RecipesInv, Restopping, Stopping, ApplyPcs
  <2>8. CASE Aside
    BY <2>8 DEF Aside, RecipesInv, Restopping, Stopping, ApplyPcs, LitellmPcs
  <2> QED BY <2>1, <2>2, <2>3, <2>4, <2>5, <2>6, <2>7, <2>8, StepShapes
<1>3. RecipesInv => StopFindsItsRecipe
  BY DEF RecipesInv, StopFindsItsRecipe, Stopping, Restopping
<1> QED BY <1>1, <1>2, <1>3, TypeCorrect, PTL DEF Spec

-----------------------------------------------------------------------------
(* Only a command that asked for it takes a workload down *)

\* A routine plan has nothing to stop.
RoutineInv == pc \in ApplyPcs /\ ~plan.restart => todo = {} /\ ~plan.restop

\* converge.py:4-5: a routine apply never stops a running workload and never
\* starts it with another content, at any of its steps.
THEOREM RoutineSafe == Spec => RoutineApplyNeverStops
<1>1. Init => RoutineInv
  BY DEF Init, RoutineInv, ApplyPcs
<1>2. TypeOK /\ RoutineInv /\ [Next]_vars => RoutineInv'
  <2> SUFFICES ASSUME TypeOK, RoutineInv, [Next]_vars PROVE RoutineInv'
    OBVIOUS
  <2>1. CASE Starts
    <3>1. PICK restart \in BOOLEAN, noModel \in BOOLEAN : StartApply(restart, noModel)
      BY <2>1 DEF Starts
    <3>2. /\ config \in Configs /\ state \in States
          /\ Launches(config, noModel) \in BOOLEAN
          /\ plan' = BuildPlan(config, state, restart, Launches(config, noModel))
          /\ todo' = plan'.stale
      BY <3>1 DEF TypeOK, Launches, StartApply
    <3>3. plan'.restart = restart /\ (~restart => plan'.stale = {} /\ ~plan'.restop)
      BY <3>2, PlanFields, PlanStops
    <3> QED BY <3>2, <3>3 DEF RoutineInv
  <2>2. CASE FileSteps
    BY <2>2 DEF FileSteps, WriteFiles, WriteFails, DeleteRemoved, DeleteFails,
                WriteGatewayFiles, GatewayWriteFails, Return, Goto, RoutineInv, ApplyPcs
  <2>3. CASE StateSteps
    <3>1. pc' = "idle"
      BY <2>3 DEF StateSteps, SaveApply, RecordStop, ClearState, Adopt, SaveGatewayFiles,
                  SaveState, Return
    <3> QED BY <3>1 DEF RoutineInv, ApplyPcs
  <2>4. CASE WorkloadSteps
    BY <2>4 DEF WorkloadSteps, StopStale, WorkloadExits, StopCurrent, EnsureModel, Goto,
                RoutineInv, ApplyPcs
  <2>5. CASE OtherCommands
    BY <2>5 DEF OtherCommands, StartModelStop, StopModel, StartTeardown, TeardownStop,
                ComposeDown, Begin, Goto, RoutineInv, ApplyPcs
  <2>6. CASE Edits
    BY <2>6 DEF Edits, EditConfig, RoutineInv
  <2>7. CASE Walks
    BY <2>7 DEF Walks, RoutineInv
  <2>8. CASE Aside
    BY <2>8 DEF Aside, RoutineInv, ApplyPcs, LitellmPcs
  <2> QED BY <2>1, <2>2, <2>3, <2>4, <2>5, <2>6, <2>7, <2>8, StepShapes
<1>3. TypeOK /\ RoutineInv /\ [Next]_vars
        => [MovesOn /\ ~plan.restart
              => \A m \in Models : running[m] # None => running'[m] = running[m]]_vars
  <2> SUFFICES ASSUME TypeOK, RoutineInv, MovesOn, ~plan.restart,
                      NEW m \in Models, running[m] # None
               PROVE  running'[m] = running[m]
    OBVIOUS
  <2>1. pc # "idle" /\ (Apply \/ ApplyFails)
    BY DEF MovesOn
  <2>2. ASSUME NEW n \in Models, StopStale(n) PROVE running'[m] = running[m]
    BY <2>2 DEF StopStale, RoutineInv, ApplyPcs
  <2>3. CASE StopCurrent
    BY <2>3 DEF StopCurrent, RoutineInv, ApplyPcs
  <2>4. CASE EnsureModel
    BY <2>4 DEF EnsureModel, TypeOK
  <2>5. CASE \E restart, noModel \in BOOLEAN : StartApply(restart, noModel)
    BY <2>1, <2>5 DEF StartApply, Begin
  <2>6. CASE ApplyFails
    BY <2>6 DEF ApplyFails, WriteFails, MeshFails, StopFails, ComposeFails, VerifyFails,
                ProbeFails, DeleteFails, CommandFails, node
  <2>7. CASE \/ RefuseApply \/ WriteFiles \/ Mesh \/ StopsDone \/ ComposeUp \/ ReloadPrometheus
             \/ RestartGateway \/ VerifyGateway \/ ProbeModel \/ DeleteRemoved \/ SaveApply
    BY <2>7 DEF RefuseApply, WriteFiles, Mesh, StopsDone, ComposeUp, ReloadPrometheus,
                RestartGateway, VerifyGateway, ProbeModel, DeleteRemoved, SaveApply, node
  <2> QED BY <2>1, <2>2, <2>3, <2>4, <2>5, <2>6, <2>7 DEF Apply
<1> QED BY <1>1, <1>2, <1>3, TypeCorrect, PTL DEF Spec, RoutineApplyNeverStops

=============================================================================
