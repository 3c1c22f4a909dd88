--------------------------- MODULE RefinementProofs ---------------------------
(***************************************************************************)
(* Converge implements Node, for every value of the constants: an apply    *)
(* that may be interrupted, fail or crash at any of its steps, and every   *)
(* command around it, changes workloads and the ledger only as Node says.  *)
(***************************************************************************)
EXTENDS ConvergeProofs, ConvergeNode

\* A stale workload that is up is still to be stopped.
StaleAreStopped ==
  \A m \in plan.stale : running[m] # None => pc \in Stopping /\ m \in todo

\* What `sparkrun run` will start is what was rendered.
RecipeWritten ==
  pc # "write" /\ HasModel(view) => disk[view.recipe] = OnNode(view)[view.recipe]

JobInv ==
  pc \in ApplyPcs =>
    /\ pc \in Stopping => todo \subseteq plan.stale
    /\ StaleAreStopped
    /\ RecipeWritten

-----------------------------------------------------------------------------
(* What a running apply knows *)

\* The plan owns the workload: it was made with launch.
Owning == plan.ensure \/ (~HasModel(view) /\ ~plan.converged)

\* The plan, and the job it is, as the ledger sees them.
LEMMA PlanKnows ==
  ASSUME TypeOK, PlanInv, pc \in ApplyPcs
  PROVE  /\ view \in Configs /\ state \in States
         /\ plan.stale \subseteq PrevRecipes(state) \ {view.recipe}
         /\ plan.restop => HasModel(view) /\ view.recipe \in PrevRecipes(state)
         /\ plan.stale # {} \/ plan.restop => plan.restart /\ Owning
         /\ plan.ensure => HasModel(view)
         /\ HasModel(view) /\ ~plan.ensure => ~plan.pending
         /\ plan.pending => ~plan.restart
         /\ Owning /\ ~plan.pending /\ (HasModel(view) \/ plan.restart)
              => PrevRecipes(state) \ {view.recipe} \subseteq plan.stale
<1>1. PICK noModel \in BOOLEAN :
        plan = BuildPlan(view, state, plan.restart, Launches(view, noModel))
  BY DEF PlanInv, Planned
<1> DEFINE launch == Launches(view, noModel)
<1>2. /\ view \in Configs /\ state \in States /\ launch \in BOOLEAN
      /\ plan \in Plans /\ plan.restart \in BOOLEAN
  BY DEF TypeOK, ApplyPcs, Launches, Plans
<1>3. /\ plan.pending = (~plan.restart /\ NeedsRestart(view, state, launch))
      /\ plan.stale = PlannedStops(view, state, plan.restart, launch)
      /\ plan.restop = (plan.restart /\ RestartCurrent(view, state, launch))
      /\ plan.ensure = (HasModel(view) /\ launch)
      /\ plan.converged = ModelConverged(view, state, launch)
  BY <1>1, <1>2, PlanFields
<1>4. /\ plan.restop => HasModel(view) /\ view.recipe \in PrevRecipes(state)
      /\ plan.stale \subseteq PrevRecipes(state)
  BY <1>1, <1>2, PlanStops
<1>5. plan.stale = IF plan.restart THEN IF launch THEN PrevRecipes(state) \ {view.recipe} ELSE {} ELSE {}
  BY <1>3 DEF PlannedStops, StaleRecipes
<1>6. launch <=> Owning
  BY <1>2, <1>3 DEF Owning, ModelConverged
<1>7. RestartCurrent(view, state, launch) => launch
  BY DEF RestartCurrent
<1>8. ~launch => ~NeedsRestart(view, state, launch)
  BY <1>7 DEF NeedsRestart, StaleRecipes
<1>9. launch /\ ~NeedsRestart(view, state, launch) => PrevRecipes(state) \ {view.recipe} = {}
  BY DEF NeedsRestart, StaleRecipes
<1> QED BY <1>1, <1>2, <1>3, <1>4, <1>5, <1>6, <1>7, <1>8, <1>9

\* A job is a job, and a ledger a ledger.
LEMMA JobType ==
  ASSUME TypeOK
  PROVE  /\ Ledger \in N!Ledgers
         /\ pc \in ApplyPcs => Job \in N!Jobs /\ Job # None
<1>1. state \in States
  BY DEF TypeOK
<1>2. Ledger \in N!Ledgers
  <2>1. state.model \in ModelEntry \cup {None}
    BY <1>1 DEF States
  <2> QED BY <2>1 DEF Ledger, N!Ledgers, N!Entries, ModelEntry
<1>3. ASSUME pc \in ApplyPcs PROVE Job \in N!Jobs
  <2>1. view \in Configs /\ plan \in Plans
    BY <1>3 DEF TypeOK, ApplyPcs
  <2>2. /\ view.recipe \in Models \cup {None}
        /\ CurrentHash(view) \in Contents \cup {None}
        /\ HasModel(view) => OnNode(view)[view.recipe] \in Contents
    BY <2>1, RenderType DEF View, CurrentHash
  <2>3. /\ plan.ensure \in BOOLEAN /\ plan.restart \in BOOLEAN
        /\ plan.pending \in BOOLEAN /\ plan.converged \in BOOLEAN
    BY <2>1 DEF Plans
  <2> QED BY <1>3, <2>2, <2>3 DEF Job, N!Jobs, HasModel
<1> QED BY <1>2, <1>3, JobAssumption

\* The ledger accounts for the recipes the engine calls previous.
LEMMA LedgerAccounts == N!Accounted(Ledger) = PrevRecipes(state)
BY DEF N!Accounted, Ledger, PrevRecipes

-----------------------------------------------------------------------------
(* The invariant is inductive *)

LEMMA JobInvHolds == Spec => []JobInv
<1>1. Init => JobInv
  BY DEF Init, JobInv, ApplyPcs
<1>2. TypeOK /\ PlanInv /\ JobInv /\ [Next]_vars => JobInv'
  <2> SUFFICES ASSUME TypeOK, PlanInv, JobInv, [Next]_vars PROVE JobInv'
    OBVIOUS
  <2>1. CASE Starts
    <3>1. PICK restart \in BOOLEAN, noModel \in BOOLEAN : StartApply(restart, noModel)
      BY <2>1 DEF Starts
    <3>2. /\ config \in Configs /\ state \in States
          /\ Launches(config, noModel) \in BOOLEAN
          /\ plan' = BuildPlan(config, state, restart, Launches(config, noModel))
          /\ todo' = plan'.stale
          /\ pc' = "write" /\ view' = config /\ UNCHANGED <<state, running>>
      BY <3>1 DEF TypeOK, Launches, StartApply, Begin, node
    <3> QED BY <3>2 DEF JobInv, StaleAreStopped, RecipeWritten, Stopping
  <2>2. CASE FileSteps
    <3>1. UNCHANGED <<state, running>>
      BY <2>2 DEF FileSteps, WriteFiles, WriteFails, DeleteRemoved, DeleteFails,
                  WriteGatewayFiles, GatewayWriteFails
    <3>2. CASE WriteFiles
      <4>1. pc = "write" /\ pc' = "mesh" /\ UNCHANGED <<view, plan, todo>> /\ WriteSome(Rels)
        BY <3>2 DEF WriteFiles, Goto
      <4>2. HasModel(view) => disk'[view.recipe] = OnNode(view)[view.recipe]
        <5>1. view \in Configs
          BY <4>1 DEF TypeOK
        <5>2. HasModel(view) => view.recipe \in Rels \cap TargetMapping(view)
          BY <5>1, RenderType DEF Rels
        <5> QED BY <4>1, <5>2 DEF WriteSome
      <4> QED BY <3>1, <4>1, <4>2
              DEF JobInv, StaleAreStopped, RecipeWritten, Stopping, ApplyPcs
    <3>3. CASE WriteFails \/ DeleteFails \/ WriteGatewayFiles \/ GatewayWriteFails
      BY <3>3 DEF WriteFails, DeleteFails, WriteGatewayFiles, GatewayWriteFails, Return, Goto,
                  JobInv, ApplyPcs
    <3>4. CASE DeleteRemoved
      <4>1. pc = "delete" /\ pc' = "save" /\ UNCHANGED <<view, plan, todo>>
        BY <3>4 DEF DeleteRemoved, Goto
      <4>2. HasModel(view) => disk'[view.recipe] = disk[view.recipe]
        <5>1. plan.removed \cap Models = {}
          BY <4>1, ModelsAssumption DEF TypeOK, Plans, ApplyPcs
        <5>2. HasModel(view) => view.recipe \in Models
          BY <4>1, RenderType DEF TypeOK
        <5> QED BY <5>1, <5>2, <3>4 DEF DeleteRemoved, DeleteSome, Rels
      <4> QED BY <3>1, <4>1, <4>2
              DEF JobInv, StaleAreStopped, RecipeWritten, Stopping, ApplyPcs
    <3> QED BY <2>2, <3>2, <3>3, <3>4 DEF FileSteps
  <2>3. CASE StateSteps
    BY <2>3 DEF StateSteps, SaveApply, RecordStop, ClearState, Adopt, SaveGatewayFiles,
                SaveState, Return, JobInv, ApplyPcs
  <2>4. CASE WorkloadSteps
    <3>1. running \in [Models -> Contents \cup {None}]
      BY DEF TypeOK
    <3>2. ASSUME NEW m \in Models, StopStale(m) PROVE JobInv'
      <4>1. /\ pc = "stop" /\ UNCHANGED <<disk, state, pc, view, plan>>
            /\ running' = [running EXCEPT ![m] = None] /\ todo' = todo \ {m}
        BY <3>2 DEF StopStale
      <4>2. StaleAreStopped => StaleAreStopped'
        BY <3>1, <4>1 DEF StaleAreStopped, Stopping
      <4> QED BY <4>1, <4>2 DEF JobInv, RecipeWritten
    <3>3. ASSUME NEW m \in Models, WorkloadExits(m) PROVE JobInv'
      <4>1. /\ UNCHANGED <<disk, state, pc, view, plan, todo>>
            /\ running' = [running EXCEPT ![m] = None]
        BY <3>3 DEF WorkloadExits
      <4>2. pc \in ApplyPcs => plan.stale \subseteq Models
        BY DEF TypeOK, Plans, ApplyPcs
      <4>3. pc \in ApplyPcs /\ StaleAreStopped => StaleAreStopped'
        BY <3>1, <4>1, <4>2 DEF StaleAreStopped
      <4> QED BY <4>1, <4>3 DEF JobInv, RecipeWritten
    <3>4. CASE StopCurrent
      <4>1. /\ pc = "restop" /\ pc' = "compose" /\ UNCHANGED <<disk, state, view, plan, todo>>
            /\ running' = IF plan.restop THEN [running EXCEPT ![view.recipe] = None] ELSE running
        BY <3>4 DEF StopCurrent, Goto
      <4>2. plan.stale \subseteq Models
        BY <4>1 DEF TypeOK, Plans, ApplyPcs
      <4>3. StaleAreStopped => StaleAreStopped'
        BY <3>1, <4>1, <4>2 DEF StaleAreStopped, Stopping
      <4> QED BY <4>1, <4>3 DEF JobInv, RecipeWritten, Stopping, ApplyPcs
    <3>5. CASE EnsureModel
      <4>1. /\ pc = "ensure" /\ pc' \in {"probe", "delete"} /\ UNCHANGED <<disk, state, view, plan, todo>>
            /\ \/ running' = running
               \/ running' = [running EXCEPT ![view.recipe] = disk[view.recipe]]
        BY <3>5 DEF EnsureModel, Goto
      <4>2. plan.stale \subseteq PrevRecipes(state) \ {view.recipe}
        BY <4>1, PlanKnows DEF ApplyPcs
      <4>3. StaleAreStopped => StaleAreStopped'
        BY <3>1, <4>1, <4>2 DEF StaleAreStopped, Stopping, PrevRecipes
      <4> QED BY <4>1, <4>3 DEF JobInv, RecipeWritten, Stopping, ApplyPcs
    <3> QED BY <2>4, <3>2, <3>3, <3>4, <3>5 DEF WorkloadSteps
  <2>5. CASE OtherCommands
    BY <2>5 DEF OtherCommands, StartModelStop, StopModel, StartTeardown, TeardownStop, ComposeDown,
                Begin, Goto, JobInv, ApplyPcs
  <2>6. CASE Edits
    BY <2>6 DEF Edits, EditConfig, node, JobInv, StaleAreStopped, RecipeWritten
  <2>7. CASE Walks
    BY <2>7 DEF Walks, JobInv, StaleAreStopped, RecipeWritten, Stopping, Restopping, ApplyPcs
  <2>8. CASE Aside
    BY <2>8 DEF Aside, JobInv, ApplyPcs, LitellmPcs
  <2> QED BY <2>1, <2>2, <2>3, <2>4, <2>5, <2>6, <2>7, <2>8, StepShapes
<1> QED BY <1>1, <1>2, TypeCorrect, PlanHolds, PTL DEF Spec

-----------------------------------------------------------------------------
(* Every step is a step of Node, or none *)

\* Steps that leave the job, the ledger and the workloads alone.
LEMMA Stutters ==
  ASSUME UNCHANGED <<state, running>>, Job' = Job
  PROVE  UNCHANGED N!vars
BY DEF Ledger, N!vars

\* Steps that end the job and record nothing.
LEMMA Abandons ==
  ASSUME TypeOK, UNCHANGED <<state, running>>, pc' \notin ApplyPcs
  PROVE  [N!Next]_(N!vars)
<1>1. Job' = None
  BY DEF Job
<1>2. CASE pc \in ApplyPcs
  <2>1. Job # None
    BY <1>2, JobType
  <2> QED BY <1>1, <2>1 DEF N!Next, N!Abandon, N!End, Ledger
<1>3. CASE pc \notin ApplyPcs
  <2>1. Job' = Job
    BY <1>1, <1>3 DEF Job
  <2> QED BY <2>1, Stutters
<1> QED BY <1>2, <1>3

\* A workload goes down.
LEMMA TakesDown ==
  ASSUME TypeOK, NEW m, running' = [running EXCEPT ![m] = None]
  PROVE  N!TakeDown({m})
BY DEF TypeOK, N!TakeDown

LEMMA JobStarts == TypeOK /\ TypeOK' /\ Starts => [N!Next]_(N!vars)
<1> SUFFICES ASSUME TypeOK, TypeOK', Starts PROVE N!Begin
  BY DEF N!Next
<1>1. pc = "idle" /\ pc' = "write" /\ UNCHANGED <<state, running>>
  BY DEF Starts, StartApply, Begin, node
<1>2. Job = None
  BY <1>1 DEF Job, ApplyPcs
<1>3. Job' \in N!Jobs
  <2>1. pc' \in ApplyPcs
    BY <1>1 DEF ApplyPcs
  <2>2. (pc \in ApplyPcs => Job \in N!Jobs /\ Job # None)'
    BY JobType, PTL
  <2> QED BY <2>1, <2>2
<1> QED BY <1>1, <1>2, <1>3 DEF N!Begin, Ledger

LEMMA JobWrites == TypeOK /\ FileSteps => [N!Next]_(N!vars)
<1> SUFFICES ASSUME TypeOK, FileSteps PROVE [N!Next]_(N!vars)
  OBVIOUS
<1>1. UNCHANGED <<state, running>>
  BY DEF FileSteps, WriteFiles, WriteFails, DeleteRemoved, DeleteFails, WriteGatewayFiles,
         GatewayWriteFails
<1>2. CASE WriteFiles \/ DeleteRemoved
  <2>1. pc \in ApplyPcs /\ pc' \in ApplyPcs /\ UNCHANGED <<view, plan>>
    BY <1>2 DEF WriteFiles, DeleteRemoved, Goto, ApplyPcs
  <2>2. Job' = Job
    BY <2>1 DEF Job
  <2> QED BY <1>1, <2>2, Stutters
<1>3. CASE WriteFails \/ DeleteFails \/ WriteGatewayFiles \/ GatewayWriteFails
  <2>1. pc' \notin ApplyPcs
    BY <1>3 DEF WriteFails, DeleteFails, WriteGatewayFiles, GatewayWriteFails, Return, Goto, ApplyPcs
  <2> QED BY <1>1, <2>1, Abandons
<1> QED BY <1>2, <1>3 DEF FileSteps

\* The end of an apply: everything accounted for is down or wanted, or the entry
\* of the confirmed workload stays.
LEMMA JobRecords == TypeOK /\ PlanInv /\ JobInv /\ SaveApply => [N!Next]_(N!vars)
<1> SUFFICES ASSUME TypeOK, PlanInv, JobInv, SaveApply PROVE [N!Next]_(N!vars)
  OBVIOUS
<1>1. pc = "save" /\ pc \in ApplyPcs /\ pc' = "idle" /\ running' = running
  BY DEF SaveApply, SaveState, Return, node, ApplyPcs
<1>2. Job # None /\ Job' = None
  BY <1>1, JobType DEF Job, ApplyPcs
<1>3. /\ view \in Configs
      /\ \A m \in Models : Render(view)[m] # None <=> HasModel(view) /\ m = view.recipe
  <2>1. view \in Configs
    BY <1>1, PlanKnows
  <2>2. ASSUME NEW m \in Models PROVE Render(view)[m] # None <=> HasModel(view) /\ m = view.recipe
    <3>1. m \in Rels /\ m \notin LitellmRels /\ m # None
      BY ModelsAssumption, NoneAssumption DEF Rels
    <3>2. m \in TargetMapping(view) <=> HasModel(view) /\ m = view.recipe
      BY <3>1 DEF TargetMapping, LitellmRels
    <3>3. Render(view)[m] = IF m \in TargetMapping(view) THEN view.content[m] ELSE None
      BY <3>1 DEF Render
    <3>4. m \in TargetMapping(view) => Render(view)[m] \in Contents
      BY <2>1, RenderType
    <3> QED BY <3>2, <3>3, <3>4, NoneAssumption
  <2> QED BY <2>1, <2>2
<1>4. /\ Job.wanted = view.recipe /\ Job.hash = CurrentHash(view)
      /\ Job.launch = Owning
      /\ Job.restart = plan.restart /\ Job.pending = plan.pending
  BY <1>1 DEF Job, Owning
<1>5. CASE state' = EmptyState /\ May("torn")
  <2>1. Ledger' = N!NoLedger
    BY <1>5 DEF Ledger, EmptyState, NoFiles, N!NoLedger, Rels
  <2> QED BY <1>1, <1>2, <1>5, <2>1 DEF N!Next, N!Abandon, N!End, May
<1>6. CASE state' = StateAfterApply(view, plan, state)
  <2>1. /\ state'.files = Render(view)
        /\ state'.model = ModelAfterApply(view, plan, state.model)
    BY <1>6 DEF StateAfterApply
  <2>2. Ledger' = [recipes |-> N!Managed(Job), model |-> state'.model]
    <3>1. {m \in Models : Render(view)[m] # None} = N!Managed(Job)
      <4>1. HasModel(view) => view.recipe \in Models
        BY <1>3, RenderType
      <4> QED BY <1>3, <1>4, <4>1 DEF N!Managed, HasModel
    <3> QED BY <2>1, <3>1 DEF Ledger
  <2>3. N!Confirmed(Job) = IF HasModel(view) THEN [name |-> view.recipe, hash |-> CurrentHash(view)]
                           ELSE None
    BY <1>4 DEF N!Confirmed, HasModel
  <2>4. CASE ~ConvergedAfter(view, plan)
    <3>1. state'.model = Ledger.model
      BY <2>1, <2>4 DEF ModelAfterApply, Ledger
    <3>2. Job.pending \/ (Job.wanted = None /\ ~Job.restart)
      BY <2>4, <1>4 DEF ConvergedAfter, HasModel
    <3> QED BY <1>1, <1>2, <2>2, <3>1, <3>2 DEF N!Next, N!Postpone, N!End
  <2>5. CASE ConvergedAfter(view, plan)
    <3>1. state'.model = N!Confirmed(Job)
      BY <2>1, <2>3, <2>5 DEF ModelAfterApply
    <3>2. CASE Job.launch
      <4>1. ~Job.pending
        BY <1>1, <1>4, <2>5, PlanKnows DEF ConvergedAfter
      <4>2. ASSUME NEW m \in N!Accounted(Ledger) \ N!Managed(Job) PROVE running[m] = None
        <5>1. m \in PrevRecipes(state) \ {view.recipe}
          BY <4>2, <1>4, LedgerAccounts, NoneAssumption DEF N!Managed, PrevRecipes
        <5>2. m \in plan.stale
          BY <5>1, <3>2, <4>1, <1>1, <1>4, <2>5, PlanKnows DEF ConvergedAfter
        <5> QED BY <5>2, <1>1 DEF JobInv, StaleAreStopped, Stopping
      <4> QED BY <1>1, <1>2, <2>2, <3>1, <3>2, <4>1, <4>2 DEF N!Next, N!Finish, N!End
    <3>3. CASE ~Job.launch
      <4>1. Job.wanted # None \/ Job.restart
        BY <2>5, <1>4 DEF ConvergedAfter, HasModel
      <4> QED BY <1>1, <1>2, <2>2, <3>1, <3>3, <4>1 DEF N!Next, N!Trust, N!End
    <3> QED BY <3>2, <3>3
  <2> QED BY <2>4, <2>5
<1> QED BY <1>5, <1>6 DEF SaveApply, SaveState

\* The other commands record between jobs.
LEMMA OthersRecord == TypeOK /\ TypeOK' /\ StateSteps /\ ~SaveApply => [N!Next]_(N!vars)
<1> SUFFICES ASSUME TypeOK, TypeOK', StateSteps, ~SaveApply PROVE N!Rewrite
  BY DEF N!Next
<1>1. pc \notin ApplyPcs /\ pc' = "idle" /\ running' = running
  BY DEF StateSteps, RecordStop, ClearState, Adopt, SaveGatewayFiles, SaveState, Return, node, ApplyPcs
<1>2. Job = None /\ Job' = None
  BY <1>1 DEF Job, ApplyPcs
<1>3. (Ledger \in N!Ledgers)'
  BY JobType, PTL
<1> QED BY <1>1, <1>2, <1>3 DEF N!Rewrite

\* A workload is stopped with permission, starts as the wanted one, or exits.
LEMMA JobWorks == TypeOK /\ PlanInv /\ JobInv /\ WorkloadSteps => [N!Next]_(N!vars)
<1> SUFFICES ASSUME TypeOK, PlanInv, JobInv, WorkloadSteps PROVE [N!Next]_(N!vars)
  OBVIOUS
<1>1. UNCHANGED <<state, view, plan>> /\ Ledger' = Ledger
  BY DEF WorkloadSteps, StopStale, WorkloadExits, StopCurrent, EnsureModel, Goto, Ledger
<1>2. ASSUME pc \in ApplyPcs, pc' \in ApplyPcs
      PROVE  Job' = Job /\ Job # None /\ Job.wanted = view.recipe
             /\ Job.launch = Owning /\ Job.restart = plan.restart
             /\ Job.content = IF HasModel(view) THEN OnNode(view)[view.recipe] ELSE None
  BY <1>1, <1>2, JobType DEF Job, Owning
<1>3. ASSUME NEW m \in PrevRecipes(state), pc \in ApplyPcs, pc' \in ApplyPcs,
             plan.stale # {} \/ plan.restop, running' = [running EXCEPT ![m] = None]
      PROVE  N!Stop
  <2>1. Job.launch /\ Job.restart
    BY <1>2, <1>3, PlanKnows
  <2>2. {m} \in SUBSET N!Accounted(Ledger)
    BY <1>3, LedgerAccounts
  <2>3. N!TakeDown({m})
    BY <1>3, TakesDown
  <2> QED BY <1>1, <1>2, <1>3, <2>1, <2>2, <2>3 DEF N!Stop
<1>4. ASSUME NEW m \in Models, StopStale(m) PROVE N!Stop
  <2>1. /\ pc = "stop" /\ pc' = "stop" /\ m \in todo
        /\ running' = [running EXCEPT ![m] = None]
    BY <1>4 DEF StopStale
  <2>2. m \in plan.stale
    BY <2>1 DEF JobInv, ApplyPcs, Stopping
  <2>3. m \in PrevRecipes(state)
    BY <2>1, <2>2, PlanKnows DEF ApplyPcs
  <2> QED BY <2>1, <2>2, <2>3, <1>3 DEF ApplyPcs
<1>5. ASSUME NEW m \in Models, WorkloadExits(m) PROVE N!WorkloadExits
  <2>1. "exit" \in Faults /\ pc' = pc /\ running' = [running EXCEPT ![m] = None]
    BY <1>5 DEF WorkloadExits, May
  <2>2. Job' = Job
    BY <1>1, <2>1 DEF Job
  <2>3. N!TakeDown({m})
    BY <2>1, TakesDown
  <2> QED BY <1>1, <2>1, <2>2, <2>3 DEF N!WorkloadExits
<1>6. CASE StopCurrent
  <2>1. /\ pc = "restop" /\ pc' = "compose"
        /\ running' = IF plan.restop THEN [running EXCEPT ![view.recipe] = None] ELSE running
    BY <1>6 DEF StopCurrent, Goto
  <2>2. CASE plan.restop
    <3>1. view.recipe \in PrevRecipes(state)
      BY <2>1, <2>2, PlanKnows DEF ApplyPcs
    <3> QED BY <2>1, <2>2, <3>1, <1>3 DEF ApplyPcs, N!Next
  <2>3. CASE ~plan.restop
    BY <2>1, <2>3, <1>1, <1>2, Stutters DEF ApplyPcs
  <2> QED BY <2>2, <2>3
<1>7. CASE EnsureModel
  <2>1. /\ pc = "ensure" /\ pc' \in {"probe", "delete"}
        /\ running' = IF plan.ensure /\ running[view.recipe] = None
                      THEN [running EXCEPT ![view.recipe] = disk[view.recipe]] ELSE running
    BY <1>7 DEF EnsureModel, Goto
  <2>2. CASE plan.ensure /\ running[view.recipe] = None
    <3>1. HasModel(view) /\ disk[view.recipe] = OnNode(view)[view.recipe]
      BY <2>1, <2>2, PlanKnows DEF JobInv, RecipeWritten, ApplyPcs
    <3>2. N!Launch
      BY <1>1, <1>2, <2>1, <2>2, <3>1 DEF ApplyPcs, N!Launch, HasModel, Owning
    <3> QED BY <3>2 DEF N!Next
  <2>3. CASE ~(plan.ensure /\ running[view.recipe] = None)
    BY <2>1, <2>3, <1>1, <1>2, Stutters DEF ApplyPcs
  <2> QED BY <2>2, <2>3
<1> QED BY <1>4, <1>5, <1>6, <1>7 DEF WorkloadSteps, N!Next

LEMMA OthersStop == TypeOK /\ OtherCommands => [N!Next]_(N!vars)
<1> SUFFICES ASSUME TypeOK, OtherCommands PROVE [N!Next]_(N!vars)
  OBVIOUS
<1>1. state' = state /\ pc \notin ApplyPcs /\ pc' \notin ApplyPcs
  BY DEF OtherCommands, StartModelStop, StopModel, StartTeardown, TeardownStop, ComposeDown,
         Begin, Goto, ApplyPcs
<1>2. Job = None /\ Job' = None /\ Ledger' = Ledger
  BY <1>1 DEF Job, Ledger
<1>3. CASE running' = running
  BY <1>1, <1>2, <1>3, Stutters
<1>4. CASE running' # running
  <2>1. HasModel(view) /\ running' = [running EXCEPT ![view.recipe] = None]
    BY <1>4 DEF OtherCommands, StartModelStop, StopModel, StartTeardown, TeardownStop, ComposeDown,
                Begin, StopConfigured, node
  <2>2. view.recipe \in Models
    <3>1. pc # "idle"
      BY <1>4 DEF OtherCommands, StartModelStop, StopModel, StartTeardown, TeardownStop, ComposeDown,
                  Begin, node
    <3> QED BY <2>1, <3>1, RenderType DEF TypeOK
  <2>3. N!TakeDown({view.recipe})
    BY <2>1, TakesDown
  <2> QED BY <1>2, <2>2, <2>3 DEF N!Next, N!StopByHand
<1> QED BY <1>3, <1>4

\* converge.py:7-14, state.py:11-14: whatever the commands do on a node, at every
\* step, under every fault, is what Node allows: only an apply that may restart takes
\* a recorded workload down, and the entry of the confirmed workload is replaced
\* only when nothing the ledger accounts for is left behind.
THEOREM ConvergeImplementsNode == Spec => ImplementsNode
<1>1. Init => N!Init
  <2> SUFFICES ASSUME Init PROVE N!Init
    OBVIOUS
  <2>1. \A m \in Models : state.files[m] = None
    BY DEF Init, EmptyState, NoFiles, Rels
  <2>2. {m \in Models : state.files[m] # None} = {} /\ state.model = None
    BY <2>1 DEF Init, EmptyState
  <2>3. Ledger = N!NoLedger
    BY <2>2 DEF Ledger, N!NoLedger
  <2>4. Job = None
    BY DEF Job, Init, ApplyPcs
  <2> QED BY <2>3, <2>4 DEF Init, N!Init
<1>2. TypeOK /\ TypeOK' /\ PlanInv /\ JobInv /\ [Next]_vars => [N!Next]_(N!vars)
  <2> SUFFICES ASSUME TypeOK, TypeOK', PlanInv, JobInv, [Next]_vars PROVE [N!Next]_(N!vars)
    OBVIOUS
  <2>1. CASE Edits
    <3>1. Job' = Job /\ UNCHANGED <<state, running>>
      BY <2>1 DEF Edits, EditConfig, node, Job
    <3> QED BY <3>1, Stutters
  <2>2. CASE Walks
    <3>1. Job' = Job /\ UNCHANGED <<state, running>>
      BY <2>2 DEF Walks, Job
    <3> QED BY <3>1, Stutters
  <2>3. CASE Aside
    <3>1. UNCHANGED <<state, running>> /\ pc' \notin ApplyPcs
      BY <2>3 DEF Aside, ApplyPcs, LitellmPcs
    <3> QED BY <3>1, Abandons
  <2>4. CASE StateSteps
    BY <2>4, JobRecords, OthersRecord
  <2> QED BY <2>1, <2>2, <2>3, <2>4, StepShapes, JobStarts, JobWrites, JobWorks, OthersStop
<1> QED BY <1>1, <1>2, TypeCorrect, PlanHolds, JobInvHolds, PTL DEF Spec, ImplementsNode, N!Spec
=============================================================================
