----------------------------- MODULE FreshProofs -----------------------------
(***************************************************************************)
(* The two daemons, for every value of the constants: when state.json      *)
(* records config.yaml as applied, the gateway has booted from the         *)
(* configured files and Prometheus has loaded the configured targets,      *)
(* through failed converges, reboots, crashes and half-written files, and  *)
(* unless one of the named mishaps came before.                            *)
(*                                                                         *)
(* Both proofs follow the same thread.  A file that state.json records as  *)
(* current is current on disk; so a daemon of which every file is recorded *)
(* as current serves it, however often it boots again; and a converge that *)
(* is about to record a file has written it and then refreshed the daemon. *)
(***************************************************************************)
EXTENDS ConvergeProofs

-----------------------------------------------------------------------------
(* Steps, as the daemons and their files see them *)

\* The control points of an apply before its daemons are touched, and after.
Before == {"mesh", "stop", "restop", "compose"}
After  == {"health", "ensure", "probe", "delete"}

\* A step that leaves files, state.json and daemons alone: it ends the command,
\* moves it on within its phase, or starts one that is no apply.
Passes ==
  /\ UNCHANGED <<config, disk, state, gateway, prometheus>>
  /\ mishaps \subseteq mishaps'
  /\ \/ pc' = "idle" /\ (pc = "tclear" => "teardown" \in mishaps')
     \/ /\ UNCHANGED plan
        /\ \/ pc' = pc
           \/ pc \in Before /\ pc' \in Before
           \/ pc \in After /\ pc' \in After
           \/ pc \in {"idle", "mstop", "tstop"} /\ pc' \in {"mstop", "mrecord", "tstop", "tdown"}
           \/ pc = "lhealth" /\ pc' = "lsave"
     \/ pc = "idle" /\ pc' = "lwrite" /\ config.controlPlane

LEMMA DaemonShapes ==
  ASSUME TypeOK, [Next]_vars
  PROVE  \/ Passes \/ Starts \/ FileSteps \/ StateSteps \/ Edits
         \/ ComposeUp \/ ReloadPrometheus \/ RestartGateway
         \/ ComposeDown \/ LitellmRestart \/ ContainersReboot
<1> USE DEF Before, After
<1>1. CASE RefuseApply
  BY <1>1 DEF RefuseApply, Return, Passes, node
<1>2. CASE Mesh \/ StopsDone
  BY <1>2 DEF Mesh, StopsDone, Goto, Passes, node
<1>3. CASE \E m \in Models : StopStale(m) \/ WorkloadExits(m)
  BY <1>3 DEF StopStale, WorkloadExits, Passes
<1>4. CASE StopCurrent
  BY <1>4 DEF StopCurrent, Goto, Passes
<1>5. CASE VerifyGateway \/ ProbeModel
  BY <1>5 DEF VerifyGateway, ProbeModel, Goto, Passes, node
<1>6. CASE EnsureModel
  BY <1>6 DEF EnsureModel, Goto, Passes
<1>7. CASE MeshFails \/ StopFails \/ ComposeFails \/ StopModelFails
  BY <1>7 DEF MeshFails, StopFails, ComposeFails, StopModelFails, CommandFails, Return, Passes, node
<1>8. CASE VerifyFails \/ ProbeFails \/ LitellmFails
  BY <1>8 DEF VerifyFails, ProbeFails, LitellmFails, Return, Passes, node
<1>9. CASE StartModelStop \/ StartTeardown
  BY <1>9 DEF StartModelStop, StartTeardown, Begin, Note, Passes, node
<1>10. CASE StopModel
  BY <1>10 DEF StopModel, Goto, Passes
<1>11. CASE TeardownStop
  BY <1>11 DEF TeardownStop, Goto, Note, Passes
<1>12. CASE StartLitellmRestart
  BY <1>12 DEF StartLitellmRestart, Begin, Passes, node
<1>13. CASE LitellmHealthy
  BY <1>13 DEF LitellmHealthy, Goto, Passes, node
<1>14. CASE Crash
  BY <1>14 DEF Crash, Return, Note, Passes, node
<1>15. CASE UNCHANGED vars
  BY <1>15 DEF vars, Passes
<1> QED
  BY <1>1, <1>2, <1>3, <1>4, <1>5, <1>6, <1>7, <1>8, <1>9, <1>10, <1>11, <1>12, <1>13, <1>14, <1>15
     DEF Next, Apply, ApplyFails, ModelStop, Teardown, Litellm, Environment,
         Starts, FileSteps, StateSteps, Edits

-----------------------------------------------------------------------------
(* Files and records *)

\* A file under litellm/ is rendered as it is, and only those of the mapping are.
LEMMA LitellmFiles ==
  ASSUME NEW c \in Configs, NEW r \in LitellmRels
  PROVE  /\ r \in Rels /\ r \notin Models
         /\ OnNode(c)[r] = Render(c)[r]
         /\ r \in TargetMapping(c) => Render(c)[r] = c.content[r] /\ Render(c)[r] \in Contents
         /\ Render(c)[r] = None <=> r \notin TargetMapping(c)
<1>1. r \in Rels /\ r \notin Models
  BY ModelsAssumption DEF Rels
<1>2. OnNode(c)[r] = Render(c)[r]
  BY <1>1 DEF OnNode, ExpandInstallDir
<1>3. Render(c)[r] = IF r \in TargetMapping(c) THEN c.content[r] ELSE None
  BY <1>1 DEF Render
<1> QED BY <1>1, <1>2, <1>3, RenderType, NoneAssumption

\* What the mapping says about the files of the daemons.
LEMMA DaemonFiles ==
  ASSUME NEW c \in Configs
  PROVE  /\ Compose \in TargetMapping(c)
         /\ GwConfig \in TargetMapping(c) <=> c.controlPlane
         /\ ModelConfig \in TargetMapping(c) <=> c.controlPlane
         /\ ExtraModels \in TargetMapping(c) <=> c.controlPlane /\ c.extra
         /\ Prometheus \in TargetMapping(c) <=> c.role = "full"
<1>1. \A r \in LitellmRels : r \in Rels /\ r \notin Models
  BY ModelsAssumption DEF Rels
<1>2. c.recipe \in Models \cup {None} /\ None \notin LitellmRels
  BY RenderType, NoneAssumption DEF View
<1>3. \A r \in LitellmRels : HasModel(c) => r # c.recipe
  BY <1>1, <1>2 DEF HasModel
<1> QED
  BY <1>1, <1>3 DEF TargetMapping, LitellmRels, Compose, GwConfig, ModelConfig, GwEnv, ExtraModels,
                    Prometheus, Grafana, GpuScript

\* A step on files writes what is rendered, and deletes what is not.
LEMMA FilesMove ==
  ASSUME TypeOK, PlanInv, FileSteps, NEW r \in LitellmRels \cap TargetMapping(view)
  PROVE  /\ disk'[r] = disk[r] \/ disk'[r] = Render(view)[r]
         /\ WriteFiles => disk'[r] = Render(view)[r]
         /\ WriteGatewayFiles /\ r \in GatewayRels /\ disk[r] # Render(view)[r]
              => disk'[r] = Render(view)[r] \/ state.files[r] = Render(view)[r]
<1>1. pc # "idle" /\ view \in Configs
  BY DEF TypeOK, FileSteps, WriteFiles, WriteFails, DeleteRemoved, DeleteFails,
         WriteGatewayFiles, GatewayWriteFails
<1>2. r \in Rels /\ OnNode(view)[r] = Render(view)[r] /\ Render(view)[r] # None
  BY <1>1, LitellmFiles
<1>3. ASSUME NEW rels, WriteSome(rels)
      PROVE  disk'[r] = IF r \in rels THEN Render(view)[r] ELSE disk[r]
  BY <1>2, <1>3 DEF WriteSome
<1>4. CASE DeleteRemoved \/ DeleteFails
  <2>1. pc = "delete"
    BY <1>4 DEF DeleteRemoved, DeleteFails
  <2>2. r \notin plan.removed
    <3>1. PICK noModel \in BOOLEAN :
            plan = BuildPlan(view, state, plan.restart, Launches(view, noModel))
      BY <2>1 DEF PlanInv, Planned, ApplyPcs
    <3>2. plan.removed = DeletedRels(view, state)
      BY <3>1 DEF BuildPlan
    <3> QED BY <3>2, <1>2 DEF DeletedRels, Removed
  <2>3. disk'[r] = disk[r]
    BY <2>2, <1>2, <1>4 DEF DeleteRemoved, DeleteFails, DeleteSome
  <2> QED BY <2>1, <2>3 DEF WriteFiles, WriteGatewayFiles
<1>5. CASE WriteFiles
  BY <1>2, <1>3, <1>5 DEF WriteFiles, WriteGatewayFiles
<1>6. CASE WriteGatewayFiles
  <2>1. disk'[r] = IF r \in StaleGatewayFiles(view, state) THEN Render(view)[r] ELSE disk[r]
    BY <1>3, <1>6 DEF WriteGatewayFiles
  <2>2. r \in GatewayRels /\ r \notin StaleGatewayFiles(view, state) => state.files[r] = Render(view)[r]
    BY <1>2 DEF StaleGatewayFiles, Changed
  <2>3. ~WriteFiles
    BY <1>6 DEF WriteFiles, WriteGatewayFiles
  <2> QED BY <2>1, <2>2, <2>3
<1>7. CASE WriteFails \/ GatewayWriteFails
  <2>1. \E rels : WriteSome(rels)
    BY <1>7 DEF WriteFails, GatewayWriteFails
  <2>2. disk'[r] = disk[r] \/ disk'[r] = Render(view)[r]
    BY <2>1, <1>3
  <2>3. pc' = "idle"
    BY <1>7 DEF WriteFails, GatewayWriteFails, Return
  <2> QED BY <2>2, <2>3 DEF WriteFiles, WriteGatewayFiles, Goto
<1> QED BY <1>4, <1>5, <1>6, <1>7 DEF FileSteps

\* What a converge records of a file, when nothing goes wrong with state.json.
LEMMA RecordsMove ==
  ASSUME TypeOK, StateSteps, "torn" \notin mishaps', "adopt" \notin mishaps', NEW r \in LitellmRels
  PROVE  \/ SaveApply /\ state'.files = Render(view)
         \/ RecordStop /\ state'.files = state.files
         \/ ClearState /\ state'.files = NoFiles
         \/ /\ Adopt /\ Settled
            /\ state'.files[r] = IF r \in TargetMapping(config) THEN disk[r] ELSE None
         \/ /\ SaveGatewayFiles
            /\ state'.files[r] = IF r \in GatewayRels \cap TargetMapping(view) THEN Render(view)[r]
                                 ELSE state.files[r]
<1>1. r \in Rels
  BY DEF Rels
<1>2. CASE SaveApply
  BY <1>2 DEF SaveApply, SaveState, Note, StateAfterApply
<1>3. CASE RecordStop
  BY <1>3 DEF RecordStop, SaveState, Note
<1>4. CASE ClearState
  BY <1>4 DEF ClearState, EmptyState
<1>5. CASE Adopt
  <2>1. state' = AdoptedState(config, disk) /\ Settled
    BY <1>5 DEF Adopt, Note
  <2> QED BY <1>1, <1>5, <2>1 DEF AdoptedState
<1>6. CASE SaveGatewayFiles
  <2>1. state' = WithGatewayFiles(view, state)
    BY <1>6 DEF SaveGatewayFiles, SaveState, Note
  <2> QED BY <1>1, <1>6, <2>1 DEF WithGatewayFiles
<1> QED BY <1>2, <1>3, <1>4, <1>5, <1>6 DEF StateSteps

\* What the plan of a running apply says about the daemons.
LEMMA PlanDaemons ==
  ASSUME TypeOK, PlanInv, pc \in ApplyPcs
  PROVE  /\ ~plan.compose => \A r \in LitellmRels : state.files[r] = Render(view)[r]
         /\ plan.bounce => view.controlPlane
         /\ ~plan.bounce /\ view.controlPlane /\ state.files # NoFiles
              => \A r \in GatewayRels : state.files[r] = Render(view)[r]
         /\ plan.reload => view.role = "full"
         /\ ~plan.reload /\ view.role = "full" /\ state.files[Prometheus] # None
              => state.files[Prometheus] = Render(view)[Prometheus]
<1>1. PICK noModel \in BOOLEAN :
        plan = BuildPlan(view, state, plan.restart, Launches(view, noModel))
  BY DEF PlanInv, Planned
<1>2. /\ plan.compose = LitellmTouched(view, state)
      /\ plan.reload = HotReload(view, state)
      /\ plan.bounce = GatewayRestart(view, state)
  BY <1>1 DEF BuildPlan
<1>3. \A r \in LitellmRels : r \in Rels
  BY DEF Rels
<1>4. ASSUME NEW r \in LitellmRels, r \notin Changed(view, state) \cup Removed(view, state)
      PROVE  state.files[r] = Render(view)[r]
  BY <1>3, <1>4 DEF Changed, Removed
<1>5. Prometheus \in LitellmRels /\ GatewayRels \subseteq LitellmRels
  BY DEF LitellmRels, GatewayRels
<1>6. ~plan.compose => \A r \in LitellmRels : state.files[r] = Render(view)[r]
  BY <1>2, <1>4 DEF LitellmTouched
<1>7. ~plan.bounce /\ view.controlPlane /\ state.files # NoFiles
        => \A r \in GatewayRels : state.files[r] = Render(view)[r]
  BY <1>2, <1>4, <1>5 DEF GatewayRestart
<1>8. ASSUME ~plan.reload, view.role = "full", state.files[Prometheus] # None
      PROVE  state.files[Prometheus] = Render(view)[Prometheus]
  <2>1. ~LitellmTouched(view, state) \/ Prometheus \notin Changed(view, state)
    BY <1>2, <1>8 DEF HotReload
  <2>2. view \in Configs
    BY DEF TypeOK, ApplyPcs
  <2>3. Render(view)[Prometheus] # None
    BY <1>5, <1>8, <2>2, DaemonFiles, LitellmFiles
  <2> QED BY <2>1, <2>3, <1>3, <1>5 DEF LitellmTouched, Changed
<1> QED BY <1>2, <1>6, <1>7, <1>8 DEF GatewayRestart, HotReload

\* An edit that leaves no mishap finds the node settled or blank.
LEMMA EditsMove ==
  ASSUME TypeOK, Edits, "edit" \notin mishaps'
  PROVE  /\ pc = "idle" /\ (Settled \/ Blank) /\ config' \in Configs
         /\ UNCHANGED <<disk, state, gateway, prometheus, pc, plan>>
         /\ mishaps' = mishaps
BY DEF Edits, EditConfig, Note, Settled, node

-----------------------------------------------------------------------------
(* The gateway *)

\* A gateway that boots from the files of a configuration serves it.
LEMMA BootServes ==
  ASSUME NEW c \in Configs, c.controlPlane, NEW d,
         \A r \in GatewayRels \cap TargetMapping(c) : d[r] = Render(c)[r]
  PROVE  Snapshot(d) = Snapshot(OnNode(c))
<1> DEFINE b == OnNode(c)
<1>1. GatewayRels \subseteq LitellmRels /\ {GwConfig, ModelConfig, ExtraModels} = GatewayRels
  BY DEF GatewayRels, LitellmRels
<1>2. \A r \in GatewayRels : b[r] = Render(c)[r]
  BY <1>1, LitellmFiles
<1>3. d[GwConfig] = b[GwConfig] /\ d[ModelConfig] = b[ModelConfig]
  BY <1>1, <1>2, DaemonFiles
<1>4. d[GwConfig] \in Including <=> c.extra
  BY <1>1, <1>2, <1>3, DaemonFiles, LitellmFiles, IncludingAssumption
<1>5. c.extra => d[ExtraModels] = b[ExtraModels]
  BY <1>1, <1>2, DaemonFiles
<1> QED BY <1>3, <1>4, <1>5 DEF Snapshot

\* Two configurations with the same gateway files ask the same of the gateway.
LEMMA SameGatewayFiles ==
  ASSUME NEW c \in Configs, NEW d \in Configs,
         \A r \in GatewayRels : Render(c)[r] = Render(d)[r]
  PROVE  GatewayServes(c) <=> GatewayServes(d)
<1>1. GatewayRels \subseteq LitellmRels /\ GwConfig \in GatewayRels
  BY DEF GatewayRels, LitellmRels
<1>2. c.controlPlane <=> d.controlPlane
  BY <1>1, DaemonFiles, LitellmFiles
<1>3. \A r \in GatewayRels \cap TargetMapping(d) : OnNode(c)[r] = Render(d)[r]
  BY <1>1, LitellmFiles
<1>4. d.controlPlane => Snapshot(OnNode(c)) = Snapshot(OnNode(d))
  BY <1>3, BootServes
<1> QED BY <1>2, <1>4 DEF GatewayServes

GatewayClean == mishaps \subseteq {"no_model", "stop", "reload"}

\* The configured gateway files are on disk, and they are recorded.
GatewayWritten  == \A r \in GatewayRels \cap TargetMapping(config) : disk[r] = Render(config)[r]
GatewayRecorded == \A r \in GatewayRels : state.files[r] = Render(config)[r]

Serving == GatewayServes(config)

\* What is recorded as current is on disk, and so is what a command has written.
GatewayFilesInv ==
  /\ \A r \in GatewayRels \cap TargetMapping(config) :
       state.files[r] = Render(config)[r] => disk[r] = Render(config)[r]
  /\ pc \in (ApplyPcs \ {"write"}) \cup {"lrestart", "lhealth", "lsave"} => GatewayWritten

\* A gateway with recorded files serves them, and so does one that was refreshed.
\* As long as nothing is recorded, a gateway that runs was booted for this config.
GatewayServesInv ==
  /\ GatewayRecorded /\ pc # "tclear" => Serving
  /\ pc = "tclear" => gateway = None
  /\ state.files = NoFiles /\ gateway # None => Serving /\ GatewayWritten
  /\ pc \in {"reload", "bounce"} => plan.bounce \/ Serving
  /\ pc \in After \cup {"save", "lhealth", "lsave"} => Serving
  /\ pc \in LitellmPcs => config.controlPlane

GatewayInv == GatewayClean => GatewayFilesInv /\ GatewayServesInv

\* A gateway that boots while the configured files are on disk serves them.
LEMMA BootsFresh ==
  ASSUME TypeOK, GatewayWritten, config.controlPlane
  PROVE  Snapshot(disk) = Snapshot(OnNode(config))
BY BootServes DEF TypeOK, GatewayWritten

LEMMA RecordedIsWritten ==
  ASSUME GatewayFilesInv, GatewayRecorded
  PROVE  GatewayWritten
BY DEF GatewayFilesInv, GatewayRecorded, GatewayWritten

\* The gateway invariant speaks of the configuration, the files and the gateway only
\* through these.
LEMMA SameGateway ==
  ASSUME UNCHANGED <<config, disk, state>>
  PROVE  /\ GatewayWritten' <=> GatewayWritten
         /\ GatewayRecorded' <=> GatewayRecorded
         /\ gateway' = gateway => (Serving' <=> Serving)
         /\ (\A r \in GatewayRels \cap TargetMapping(config) :
               state.files[r] = Render(config)[r] => disk[r] = Render(config)[r])'
            <=> \A r \in GatewayRels \cap TargetMapping(config) :
               state.files[r] = Render(config)[r] => disk[r] = Render(config)[r]
BY DEF GatewayWritten, GatewayRecorded, Serving, GatewayServes

\* One lemma for each kind of step.
LEMMA GatewayPasses == TypeOK /\ CurrentInv /\ GatewayInv /\ Passes => GatewayInv'
<1> SUFFICES ASSUME TypeOK, GatewayInv, Passes, GatewayClean' PROVE GatewayFilesInv' /\ GatewayServesInv'
  BY DEF GatewayInv
<1>1. GatewayClean /\ UNCHANGED <<config, disk, state, gateway>>
  BY DEF GatewayClean, Passes
<1>2. GatewayFilesInv /\ GatewayServesInv
  BY <1>1 DEF GatewayInv
<1>3. /\ pc' \in ApplyPcs \ {"write"} => pc \in ApplyPcs \ {"write"}
      /\ pc' \in {"lrestart", "lhealth", "lsave"} => pc \in {"lrestart", "lhealth", "lsave"}
      /\ pc' = "tclear" => pc = "tclear"
      /\ pc = "tclear" => pc' = "tclear"
      /\ pc' \in {"reload", "bounce"} => pc' = pc /\ plan' = plan
      /\ pc' \in After \cup {"save", "lhealth", "lsave"} => pc \in After \cup {"save", "lhealth", "lsave"}
      /\ pc' \in LitellmPcs => pc \in LitellmPcs \/ config.controlPlane
  <2> USE DEF Passes, Before, After, ApplyPcs, LitellmPcs
  <2>1. pc = "tclear" => pc' = "tclear"
    BY DEF GatewayClean
  <2> QED BY <2>1
<1> QED BY <1>1, <1>2, <1>3, SameGateway DEF GatewayFilesInv, GatewayServesInv

LEMMA GatewayStarts == TypeOK /\ GatewayInv /\ Starts => GatewayInv'
<1> SUFFICES ASSUME TypeOK, GatewayInv, Starts, GatewayClean' PROVE GatewayFilesInv' /\ GatewayServesInv'
  BY DEF GatewayInv
<1>1. /\ GatewayClean /\ UNCHANGED <<config, disk, state, gateway>>
      /\ pc = "idle" /\ pc' = "write"
  BY DEF GatewayClean, Starts, StartApply, Begin, Note, node
<1>2. GatewayFilesInv /\ GatewayServesInv
  BY <1>1 DEF GatewayInv
<1> QED BY <1>1, <1>2, SameGateway DEF GatewayFilesInv, GatewayServesInv, After, ApplyPcs, LitellmPcs

\* A command writes the configured files, and deletes none of them.
LEMMA GatewayFileSteps == TypeOK /\ PlanInv /\ CurrentInv /\ GatewayInv /\ FileSteps => GatewayInv'
<1> SUFFICES ASSUME TypeOK, PlanInv, CurrentInv, GatewayInv, FileSteps, GatewayClean'
             PROVE  GatewayFilesInv' /\ GatewayServesInv'
  BY DEF GatewayInv
<1> USE DEF FileSteps, WriteFiles, WriteFails, DeleteRemoved, DeleteFails, WriteGatewayFiles,
            GatewayWriteFails, Return, Goto
<1>1. /\ GatewayClean /\ UNCHANGED <<config, state, gateway>>
      /\ pc # "idle" /\ "edit" \notin mishaps
  BY DEF GatewayClean
<1>2. GatewayFilesInv /\ GatewayServesInv
  BY <1>1 DEF GatewayInv
<1>3. view = config
  BY <1>1 DEF CurrentInv, CurrentView
<1>4. GatewayRels \subseteq LitellmRels
  BY DEF GatewayRels, LitellmRels
<1>5. ASSUME NEW r \in GatewayRels \cap TargetMapping(config)
      PROVE  /\ disk[r] = Render(config)[r] => disk'[r] = Render(config)[r]
             /\ state.files[r] = Render(config)[r] => disk[r] = Render(config)[r]
             /\ WriteFiles \/ WriteGatewayFiles => disk'[r] = Render(config)[r]
  <2>1. r \in LitellmRels \cap TargetMapping(view)
    BY <1>3, <1>4
  <2>2. /\ disk'[r] = disk[r] \/ disk'[r] = Render(config)[r]
        /\ WriteFiles => disk'[r] = Render(config)[r]
        /\ WriteGatewayFiles /\ disk[r] # Render(config)[r]
             => disk'[r] = Render(config)[r] \/ state.files[r] = Render(config)[r]
    BY <2>1, <1>3, FilesMove
  <2>3. state.files[r] = Render(config)[r] => disk[r] = Render(config)[r]
    BY <1>2 DEF GatewayFilesInv
  <2> QED BY <2>2, <2>3
<1>6. GatewayWritten => GatewayWritten'
  BY <1>1, <1>5 DEF GatewayWritten
<1>7. GatewayWritten'
      \/ pc' \notin (ApplyPcs \ {"write"}) \cup {"lrestart", "lhealth", "lsave"}
  <2>1. CASE WriteFiles \/ WriteGatewayFiles
    BY <2>1, <1>1, <1>5 DEF GatewayWritten
  <2>2. CASE DeleteRemoved
    BY <2>2, <1>2, <1>6 DEF GatewayFilesInv, ApplyPcs
  <2> QED BY <2>1, <2>2 DEF ApplyPcs
<1>8. GatewayFilesInv'
  BY <1>1, <1>5, <1>7 DEF GatewayFilesInv
<1>9. (GatewayRecorded' <=> GatewayRecorded) /\ (Serving' <=> Serving)
  BY <1>1 DEF GatewayRecorded, Serving, GatewayServes
<1>10. /\ pc \in ApplyPcs \cup LitellmPcs /\ pc # "tclear" /\ pc' # "tclear"
       /\ pc' \notin {"reload", "bounce"} \cup After \cup {"lhealth", "lsave"}
       /\ pc' = "save" => pc \in After
       /\ pc' \in LitellmPcs => pc \in LitellmPcs
  BY DEF After, ApplyPcs, LitellmPcs
<1> QED BY <1>1, <1>2, <1>6, <1>8, <1>9, <1>10 DEF GatewayServesInv

\* Only a command that has refreshed the gateway records its files.
LEMMA GatewayRecords == TypeOK /\ CurrentInv /\ GatewayInv /\ StateSteps => GatewayInv'
<1> SUFFICES ASSUME TypeOK, CurrentInv, GatewayInv, StateSteps, GatewayClean'
             PROVE  GatewayFilesInv' /\ GatewayServesInv'
  BY DEF GatewayInv
<1>1. /\ UNCHANGED <<config, disk, gateway>> /\ pc' = "idle"
      /\ mishaps \subseteq mishaps' /\ "torn" \notin mishaps' /\ "adopt" \notin mishaps'
  BY DEF StateSteps, SaveApply, RecordStop, ClearState, Adopt, SaveGatewayFiles, SaveState,
         Return, Note, node, GatewayClean
<1>2. GatewayClean /\ "edit" \notin mishaps
  BY <1>1 DEF GatewayClean
<1>3. GatewayFilesInv /\ GatewayServesInv
  BY <1>2 DEF GatewayInv
<1>4. pc # "idle" => view = config
  BY <1>2 DEF CurrentInv, CurrentView
<1>5. GatewayRels \subseteq LitellmRels /\ ModelConfig \in GatewayRels
  BY DEF GatewayRels, LitellmRels
<1>6. config \in Configs /\ state \in States
  BY DEF TypeOK
<1>7. (GatewayWritten' <=> GatewayWritten) /\ (Serving' <=> Serving)
  BY <1>1 DEF GatewayWritten, Serving, GatewayServes
<1>8. ASSUME GatewayWritten, Serving PROVE GatewayFilesInv' /\ GatewayServesInv'
  BY <1>1, <1>7, <1>8 DEF GatewayFilesInv, GatewayServesInv, GatewayWritten, After, ApplyPcs, LitellmPcs
<1>9. CASE SaveApply \/ SaveGatewayFiles
  <2>1. pc \in {"save", "lsave"}
    BY <1>9 DEF SaveApply, SaveGatewayFiles
  <2> QED BY <2>1, <1>3, <1>8 DEF GatewayFilesInv, GatewayServesInv, ApplyPcs
<1>10. CASE Adopt
  <2>1. pc = "idle" /\ Settled
    <3>1. ModelConfig \in LitellmRels
      BY <1>5
    <3> QED BY <3>1, <1>1, <1>10, RecordsMove
            DEF Adopt, SaveApply, RecordStop, ClearState, SaveGatewayFiles
  <2>2. GatewayRecorded
    BY <2>1 DEF Settled, ConvergedState, GatewayRecorded
  <2> QED BY <2>1, <2>2, <1>3, <1>8, RecordedIsWritten DEF GatewayServesInv
<1>11. CASE RecordStop
  <2>1. state'.files = state.files /\ pc = "mrecord"
    BY <1>11, <1>1 DEF RecordStop, SaveState, Note
  <2>2. GatewayRecorded' <=> GatewayRecorded
    BY <2>1, <1>1 DEF GatewayRecorded
  <2> QED BY <2>1, <2>2, <1>1, <1>3, <1>7
          DEF GatewayFilesInv, GatewayServesInv, After, ApplyPcs, LitellmPcs
<1>12. CASE ClearState
  <2>1. state'.files = NoFiles /\ gateway = None
    BY <1>3, <1>12 DEF ClearState, EmptyState, GatewayServesInv
  <2>2. ASSUME NEW r \in GatewayRels \cap TargetMapping(config)
        PROVE  state'.files[r] # Render(config)[r]
    BY <2>1, <1>5, <1>6, LitellmFiles DEF NoFiles
  <2>3. GatewayRecorded' => Serving
    <3>1. CASE config.controlPlane
      BY <3>1, <2>2, <1>1, <1>5, <1>6, DaemonFiles DEF GatewayRecorded
    <3>2. CASE ~config.controlPlane
      BY <3>2, <2>1 DEF Serving, GatewayServes
    <3> QED BY <3>1, <3>2
  <2> QED BY <2>1, <2>2, <2>3, <1>1, <1>7
          DEF GatewayFilesInv, GatewayServesInv, After, ApplyPcs, LitellmPcs
<1> QED BY <1>9, <1>10, <1>11, <1>12 DEF StateSteps

\* The operator edits a node that is settled or blank.
LEMMA GatewayEdits == TypeOK /\ GatewayInv /\ Edits => GatewayInv'
<1> SUFFICES ASSUME TypeOK, GatewayInv, Edits, GatewayClean' PROVE GatewayFilesInv' /\ GatewayServesInv'
  BY DEF GatewayInv
<1>1. /\ pc = "idle" /\ (Settled \/ Blank) /\ config' \in Configs
      /\ UNCHANGED <<disk, state, gateway, pc>> /\ mishaps' = mishaps
  BY EditsMove DEF GatewayClean
<1>2. GatewayFilesInv /\ GatewayServesInv
  BY <1>1 DEF GatewayInv, GatewayClean
<1>3. GatewayRels \subseteq LitellmRels /\ ModelConfig \in GatewayRels /\ Compose \in LitellmRels
  BY DEF GatewayRels, LitellmRels
<1>4. config \in Configs
  BY DEF TypeOK
<1>5. \A r \in GatewayRels \cap TargetMapping(config') : Render(config')[r] # None
  BY <1>1, <1>3, LitellmFiles
<1>6. CASE Settled
  <2>1. state.files = Render(config) /\ GatewayRecorded
    BY <1>6 DEF Settled, ConvergedState, GatewayRecorded
  <2>2. Serving /\ GatewayWritten
    BY <2>1, <1>1, <1>2, RecordedIsWritten DEF GatewayServesInv
  <2>3. ASSUME NEW r \in GatewayRels \cap TargetMapping(config'),
               state'.files[r] = Render(config')[r]
        PROVE  disk'[r] = Render(config')[r]
    <3>1. Render(config)[r] = Render(config')[r] /\ Render(config')[r] # None
      BY <2>1, <2>3, <1>1, <1>5
    <3>2. r \in TargetMapping(config)
      BY <3>1, <1>3, <1>4, LitellmFiles
    <3> QED BY <3>1, <3>2, <2>2, <1>1 DEF GatewayWritten
  <2>4. GatewayRecorded' => Serving'
    <3> SUFFICES ASSUME GatewayRecorded' PROVE Serving'
      OBVIOUS
    <3>1. \A r \in GatewayRels : Render(config)[r] = Render(config')[r]
      BY <2>1, <1>1 DEF GatewayRecorded
    <3>2. GatewayServes(config) <=> GatewayServes(config')
      BY <3>1, <1>1, <1>4, SameGatewayFiles
    <3> QED BY <3>2, <2>2, <1>1 DEF Serving, GatewayServes
  <2>5. state.files # NoFiles
    <3>1. Render(config)[Compose] # None
      BY <1>3, <1>4, DaemonFiles, LitellmFiles
    <3> QED BY <3>1, <2>1, <1>3, <1>4, LitellmFiles DEF NoFiles
  <2> QED BY <2>3, <2>4, <2>5, <1>1
          DEF GatewayFilesInv, GatewayServesInv, After, ApplyPcs, LitellmPcs
<1>7. CASE Blank
  <2>1. state.files = NoFiles /\ gateway = None
    BY <1>7 DEF Blank, EmptyState
  <2>2. \A r \in GatewayRels : state.files[r] = None
    BY <2>1 DEF NoFiles, GatewayRels, LitellmRels, Rels
  <2>3. GatewayRecorded' => Serving'
    <3>1. ~GatewayRecorded' \/ ~config'.controlPlane
      BY <2>2, <1>1, <1>3, <1>5, DaemonFiles DEF GatewayRecorded
    <3> QED BY <3>1, <2>1, <1>1 DEF Serving, GatewayServes
  <2> QED BY <2>1, <2>2, <2>3, <1>1, <1>5
          DEF GatewayFilesInv, GatewayServesInv, After, ApplyPcs, LitellmPcs
<1> QED BY <1>1, <1>6, <1>7

\* `docker compose up` boots a gateway, or leaves one that serves or is bounced next.
LEMMA GatewayComposes == TypeOK /\ PlanInv /\ CurrentInv /\ GatewayInv /\ ComposeUp => GatewayInv'
<1> SUFFICES ASSUME TypeOK, PlanInv, CurrentInv, GatewayInv, ComposeUp, GatewayClean'
             PROVE  GatewayFilesInv' /\ GatewayServesInv'
  BY DEF GatewayInv
<1>1. /\ GatewayClean /\ UNCHANGED <<config, disk, state, plan>>
      /\ pc = "compose" /\ pc' = "reload" /\ "edit" \notin mishaps
  BY DEF GatewayClean, ComposeUp, Goto
<1>2. GatewayFilesInv /\ GatewayServesInv
  BY <1>1 DEF GatewayInv
<1>3. view = config /\ GatewayWritten
  BY <1>1, <1>2 DEF CurrentInv, CurrentView, GatewayFilesInv, ApplyPcs
<1>4. /\ ~plan.compose => GatewayRecorded
      /\ ~plan.bounce /\ config.controlPlane /\ state.files # NoFiles => GatewayRecorded
  BY <1>1, <1>3, PlanDaemons DEF ApplyPcs, GatewayRecorded, GatewayRels, LitellmRels
<1>5. Serving' \/ (plan.bounce /\ gateway' = gateway /\ gateway # None)
  <2>1. CASE ~plan.compose
    BY <2>1, <1>1, <1>2, <1>4 DEF ComposeUp, GatewayServesInv, Serving, GatewayServes
  <2>2. CASE plan.compose /\ ~config.controlPlane
    BY <2>2, <1>1, <1>3 DEF ComposeUp, UpOrRecreated, Serving, GatewayServes
  <2>3. CASE plan.compose /\ config.controlPlane
    <3>1. gateway' = Snapshot(disk) \/ (gateway' = gateway /\ gateway # None)
      BY <2>3, <1>3 DEF ComposeUp, UpOrRecreated
    <3>2. Snapshot(disk) = Snapshot(OnNode(config))
      BY <2>3, <1>3, BootsFresh
    <3>3. gateway' = gateway /\ gateway # None /\ ~plan.bounce => Serving
      BY <2>3, <1>1, <1>2, <1>4 DEF GatewayServesInv
    <3> QED BY <2>3, <3>1, <3>2, <3>3, <1>1 DEF Serving, GatewayServes
  <2> QED BY <2>1, <2>2, <2>3
<1>6. gateway' = gateway => (Serving' <=> Serving)
  BY <1>1 DEF Serving, GatewayServes
<1>7. (GatewayWritten' <=> GatewayWritten) /\ (GatewayRecorded' <=> GatewayRecorded)
  BY <1>1 DEF GatewayWritten, GatewayRecorded
<1>8. GatewayFilesInv'
  BY <1>1, <1>2, <1>3, <1>7 DEF GatewayFilesInv
<1> QED BY <1>1, <1>2, <1>3, <1>5, <1>6, <1>7, <1>8 DEF GatewayServesInv, After, ApplyPcs, LitellmPcs

\* The gateway is restarted, goes away, or boots again.
LEMMA GatewayDaemons ==
  /\ TypeOK /\ PlanInv /\ CurrentInv /\ GatewayInv
  /\ ReloadPrometheus \/ RestartGateway \/ ComposeDown \/ LitellmRestart \/ ContainersReboot
  => GatewayInv'
<1> SUFFICES ASSUME TypeOK, PlanInv, CurrentInv, GatewayInv, GatewayClean',
                    ReloadPrometheus \/ RestartGateway \/ ComposeDown \/ LitellmRestart
                      \/ ContainersReboot
             PROVE  GatewayFilesInv' /\ GatewayServesInv'
  BY DEF GatewayInv
<1> USE DEF ReloadPrometheus, RestartGateway, ComposeDown, LitellmRestart, ContainersReboot, Goto, Note
<1>1. GatewayClean /\ UNCHANGED <<config, disk, state, plan>> /\ "edit" \notin mishaps
  BY DEF GatewayClean
<1>2. GatewayFilesInv /\ GatewayServesInv
  BY <1>1 DEF GatewayInv
<1>3. pc # "idle" => view = config
  BY <1>1 DEF CurrentInv, CurrentView
<1>4. /\ pc' \in ApplyPcs \ {"write"} => pc \in ApplyPcs \ {"write"}
      /\ pc' \in {"lrestart", "lhealth", "lsave"} => pc \in {"lrestart", "lhealth", "lsave"}
  BY DEF ApplyPcs
<1>5. GatewayFilesInv'
  BY <1>1, <1>2, <1>4, SameGateway DEF GatewayFilesInv
<1>6. CASE ReloadPrometheus
  BY <1>1, <1>2, <1>5, <1>6, SameGateway DEF GatewayServesInv, After, LitellmPcs
<1>7. CASE RestartGateway
  <2>1. pc = "bounce" /\ GatewayWritten
    BY <1>2, <1>7 DEF GatewayFilesInv, ApplyPcs
  <2>2. plan.bounce => gateway' = Snapshot(disk) /\ config.controlPlane
    BY <2>1, <1>3, <1>7, PlanDaemons DEF GatewayClean, ApplyPcs
  <2>3. ~plan.bounce => Serving /\ gateway' = gateway
    BY <2>1, <1>2, <1>7 DEF GatewayServesInv
  <2>4. Serving'
    BY <2>1, <2>2, <2>3, <1>1, BootsFresh DEF Serving, GatewayServes
  <2> QED BY <2>1, <2>4, <1>1, <1>5, <1>7, SameGateway DEF GatewayServesInv, After, LitellmPcs
<1>8. CASE ComposeDown
  <2>1. gateway' = None
    BY <1>8 DEF GatewayClean
  <2> QED BY <2>1, <1>5, <1>8 DEF GatewayServesInv, After, LitellmPcs
<1>9. CASE LitellmRestart
  <2>1. GatewayWritten /\ config.controlPlane
    BY <1>2, <1>9 DEF GatewayFilesInv, GatewayServesInv, LitellmPcs
  <2>2. Serving'
    BY <2>1, <1>1, <1>9, BootsFresh DEF Serving, GatewayServes
  <2> QED BY <2>1, <2>2, <1>1, <1>5, <1>9, SameGateway DEF GatewayServesInv, After, LitellmPcs
<1>10. CASE ContainersReboot
  <2>1. Serving /\ GatewayWritten => Serving'
    BY <1>1, <1>10, BootsFresh DEF Serving, GatewayServes
  <2>2. /\ GatewayRecorded => GatewayWritten
        /\ pc \in {"reload", "bounce"} \cup After \cup {"save", "lhealth", "lsave"} => GatewayWritten
    BY <1>2, RecordedIsWritten DEF GatewayFilesInv, ApplyPcs, After
  <2>3. gateway = None => gateway' = None
    BY <1>10
  <2> QED BY <2>1, <2>2, <2>3, <1>1, <1>2, <1>5, <1>10, SameGateway DEF GatewayServesInv
<1> QED BY <1>6, <1>7, <1>8, <1>9, <1>10

\* converge.py:345-351: when config.yaml is recorded as applied, the gateway has
\* booted from the configured files, whatever failed, rebooted or was killed before.
THEOREM GatewayIsFresh == Spec => []GatewayFresh
<1>1. Init => GatewayInv
  <2> SUFFICES ASSUME Init PROVE GatewayFilesInv /\ GatewayServesInv
    BY DEF GatewayInv
  <2>1. \A r \in GatewayRels : r \in LitellmRels /\ state.files[r] = None
    BY DEF Init, EmptyState, NoFiles, GatewayRels, LitellmRels, Rels
  <2>2. \A r \in GatewayRels \cap TargetMapping(config) : Render(config)[r] # None
    BY <2>1, LitellmFiles DEF Init
  <2>3. GatewayRecorded => Serving
    <3>1. ModelConfig \in GatewayRels
      BY DEF GatewayRels
    <3> QED BY <3>1, <2>1, <2>2, DaemonFiles DEF Init, GatewayRecorded, Serving, GatewayServes
  <2> QED BY <2>1, <2>2, <2>3
          DEF Init, GatewayFilesInv, GatewayServesInv, After, ApplyPcs, LitellmPcs
<1>2. TypeOK /\ PlanInv /\ CurrentInv /\ GatewayInv /\ [Next]_vars => GatewayInv'
  BY DaemonShapes, GatewayPasses, GatewayStarts, GatewayFileSteps, GatewayRecords, GatewayEdits,
     GatewayComposes, GatewayDaemons
<1>3. GatewayInv => GatewayFresh
  BY DEF GatewayInv, GatewayClean, GatewayServesInv, GatewayFresh, Settled, ConvergedState,
         GatewayRecorded, Serving
<1> QED BY <1>1, <1>2, <1>3, TypeCorrect, PlanHolds, CurrentHolds, PTL DEF Spec

-----------------------------------------------------------------------------
(* Prometheus: the same argument for one file that is hot-reloaded *)

PrometheusClean == mishaps \subseteq {"no_model", "stop", "restart"}

\* The configured targets are on disk, they are recorded, they are scraped.
TargetsWritten  == config.role = "full" => disk[Prometheus] = Render(config)[Prometheus]
TargetsRecorded == state.files[Prometheus] = Render(config)[Prometheus]
Scraping        == PrometheusScrapes(config)

TargetsFileInv ==
  /\ TargetsRecorded => TargetsWritten
  /\ pc \in ApplyPcs \ {"write"} => TargetsWritten

\* As for the gateway; a Prometheus whose file is not recorded was booted for this config.
ScrapingInv ==
  /\ TargetsRecorded /\ pc # "tclear" => Scraping
  /\ pc = "tclear" => prometheus = None
  /\ state.files[Prometheus] = None /\ prometheus # None => Scraping /\ TargetsWritten
  /\ pc = "reload" => plan.reload \/ Scraping
  /\ pc \in After \cup {"bounce", "save"} => Scraping

PrometheusInv == PrometheusClean => TargetsFileInv /\ ScrapingInv

LEMMA TargetsFile ==
  ASSUME NEW c \in Configs
  PROVE  /\ Render(c)[Prometheus] = None <=> c.role # "full"
         /\ OnNode(c)[Prometheus] = Render(c)[Prometheus]
BY DaemonFiles, LitellmFiles DEF LitellmRels

\* A Prometheus that boots, or reloads, while the configured targets are on disk.
LEMMA LoadsTargets ==
  ASSUME TypeOK, TargetsWritten, config.role = "full", prometheus' = disk[Prometheus], config' = config
  PROVE  Scraping'
BY TargetsFile DEF TypeOK, TargetsWritten, Scraping, PrometheusScrapes

LEMMA SameTargets ==
  ASSUME UNCHANGED <<config, disk, state>>
  PROVE  /\ TargetsWritten' <=> TargetsWritten
         /\ TargetsRecorded' <=> TargetsRecorded
         /\ prometheus' = prometheus => (Scraping' <=> Scraping)
BY DEF TargetsWritten, TargetsRecorded, Scraping, PrometheusScrapes

LEMMA TargetsPass == TypeOK /\ PrometheusInv /\ (Passes \/ Starts) => PrometheusInv'
<1> SUFFICES ASSUME TypeOK, PrometheusInv, Passes \/ Starts, PrometheusClean'
             PROVE  TargetsFileInv' /\ ScrapingInv'
  BY DEF PrometheusInv
<1>1. /\ PrometheusClean /\ UNCHANGED <<config, disk, state, prometheus>>
      /\ Starts => pc = "idle" /\ pc' = "write"
  BY DEF PrometheusClean, Passes, Starts, StartApply, Begin, Note, node
<1>2. TargetsFileInv /\ ScrapingInv
  BY <1>1 DEF PrometheusInv
<1>3. CASE Starts
  BY <1>1, <1>2, <1>3, SameTargets DEF TargetsFileInv, ScrapingInv, After
<1>4. CASE Passes
  <2>1. /\ pc' \in ApplyPcs \ {"write"} => pc \in ApplyPcs \ {"write"}
        /\ pc' = "tclear" <=> pc = "tclear"
        /\ pc' = "reload" => pc = "reload" /\ plan' = plan
        /\ pc' \in After \cup {"bounce", "save"} => pc \in After \cup {"bounce", "save"}
    <3> USE DEF Passes, Before, After, ApplyPcs
    <3>1. pc = "tclear" => pc' = "tclear"
      BY <1>4 DEF PrometheusClean
    <3> QED BY <3>1, <1>4
  <2> QED BY <2>1, <1>1, <1>2, SameTargets DEF TargetsFileInv, ScrapingInv
<1> QED BY <1>3, <1>4

LEMMA TargetsFileSteps ==
  TypeOK /\ PlanInv /\ CurrentInv /\ PrometheusInv /\ FileSteps => PrometheusInv'
<1> SUFFICES ASSUME TypeOK, PlanInv, CurrentInv, PrometheusInv, FileSteps, PrometheusClean'
             PROVE  TargetsFileInv' /\ ScrapingInv'
  BY DEF PrometheusInv
<1> USE DEF FileSteps, WriteFiles, WriteFails, DeleteRemoved, DeleteFails, WriteGatewayFiles,
            GatewayWriteFails, Return, Goto
<1>1. /\ PrometheusClean /\ UNCHANGED <<config, state, prometheus>>
      /\ pc # "idle" /\ "edit" \notin mishaps
  BY DEF PrometheusClean
<1>2. TargetsFileInv /\ ScrapingInv
  BY <1>1 DEF PrometheusInv
<1>3. view = config /\ config \in Configs
  BY <1>1 DEF CurrentInv, CurrentView, TypeOK
<1>4. config.role = "full" => Prometheus \in LitellmRels \cap TargetMapping(view)
  BY <1>3, DaemonFiles DEF LitellmRels
<1>5. (TargetsWritten => TargetsWritten') /\ (WriteFiles => TargetsWritten')
  BY <1>1, <1>3, <1>4, FilesMove DEF TargetsWritten
<1>6. pc' \in ApplyPcs \ {"write"} => WriteFiles \/ pc \in ApplyPcs \ {"write"}
  BY DEF ApplyPcs
<1>7. (TargetsRecorded' <=> TargetsRecorded) /\ (Scraping' <=> Scraping)
  BY <1>1 DEF TargetsRecorded, Scraping, PrometheusScrapes
<1>8. /\ pc # "tclear" /\ pc' \notin After \cup {"tclear", "reload", "bounce"}
      /\ pc' = "save" => pc \in After
  BY DEF After
<1> QED BY <1>1, <1>2, <1>5, <1>6, <1>7, <1>8 DEF TargetsFileInv, ScrapingInv

LEMMA TargetsRecords == TypeOK /\ CurrentInv /\ PrometheusInv /\ StateSteps => PrometheusInv'
<1> SUFFICES ASSUME TypeOK, CurrentInv, PrometheusInv, StateSteps, PrometheusClean'
             PROVE  TargetsFileInv' /\ ScrapingInv'
  BY DEF PrometheusInv
<1>1. /\ UNCHANGED <<config, disk, prometheus>> /\ pc' = "idle"
      /\ mishaps \subseteq mishaps' /\ "torn" \notin mishaps' /\ "adopt" \notin mishaps'
  BY DEF StateSteps, SaveApply, RecordStop, ClearState, Adopt, SaveGatewayFiles, SaveState,
         Return, Note, node, PrometheusClean
<1>2. PrometheusClean /\ "edit" \notin mishaps
  BY <1>1 DEF PrometheusClean
<1>3. TargetsFileInv /\ ScrapingInv
  BY <1>2 DEF PrometheusInv
<1>4. Prometheus \in LitellmRels /\ Prometheus \notin GatewayRels /\ config \in Configs
  BY DEF LitellmRels, GatewayRels, TypeOK, Prometheus, GwConfig, ModelConfig, ExtraModels
<1>5. (TargetsWritten' <=> TargetsWritten) /\ (Scraping' <=> Scraping)
  BY <1>1 DEF TargetsWritten, Scraping, PrometheusScrapes
<1>6. ASSUME TargetsWritten, Scraping PROVE TargetsFileInv' /\ ScrapingInv'
  BY <1>1, <1>5, <1>6 DEF TargetsFileInv, ScrapingInv, After, ApplyPcs
<1>7. CASE SaveApply
  BY <1>3, <1>6, <1>7 DEF SaveApply, TargetsFileInv, ScrapingInv, ApplyPcs
<1>8. CASE Adopt /\ Settled
  <2>1. TargetsRecorded /\ pc = "idle"
    BY <1>8 DEF Settled, ConvergedState, TargetsRecorded
  <2> QED BY <2>1, <1>3, <1>6 DEF TargetsFileInv, ScrapingInv
<1>9. CASE (RecordStop \/ SaveGatewayFiles) /\ state'.files[Prometheus] = state.files[Prometheus]
  <2>1. (TargetsRecorded' <=> TargetsRecorded) /\ pc # "tclear"
    BY <1>1, <1>9 DEF TargetsRecorded, RecordStop, SaveGatewayFiles
  <2> QED BY <2>1, <1>1, <1>3, <1>5, <1>9 DEF TargetsFileInv, ScrapingInv, After, ApplyPcs
<1>10. CASE ClearState /\ state'.files = NoFiles
  <2>1. state'.files[Prometheus] = None /\ prometheus = None
    BY <1>3, <1>4, <1>10 DEF ClearState, ScrapingInv, NoFiles, Rels
  <2>2. TargetsRecorded' => Scraping' /\ TargetsWritten'
    BY <2>1, <1>1, <1>4, TargetsFile DEF TargetsRecorded, Scraping, PrometheusScrapes, TargetsWritten
  <2> QED BY <2>1, <2>2, <1>1 DEF TargetsFileInv, ScrapingInv, After, ApplyPcs
<1> QED BY <1>1, <1>4, <1>7, <1>8, <1>9, <1>10, RecordsMove

LEMMA TargetsEdits == TypeOK /\ PrometheusInv /\ Edits => PrometheusInv'
<1> SUFFICES ASSUME TypeOK, PrometheusInv, Edits, PrometheusClean' PROVE TargetsFileInv' /\ ScrapingInv'
  BY DEF PrometheusInv
<1>1. /\ pc = "idle" /\ (Settled \/ Blank) /\ config' \in Configs /\ config \in Configs
      /\ UNCHANGED <<disk, state, prometheus, pc>> /\ mishaps' = mishaps
  BY EditsMove DEF PrometheusClean, TypeOK
<1>2. TargetsFileInv /\ ScrapingInv
  BY <1>1 DEF PrometheusInv, PrometheusClean
<1>3. CASE Settled
  <2>1. TargetsRecorded
    BY <1>3 DEF Settled, ConvergedState, TargetsRecorded
  <2>2. Scraping /\ TargetsWritten
    BY <2>1, <1>1, <1>2 DEF TargetsFileInv, ScrapingInv
  <2>3. TargetsRecorded' => Scraping' /\ TargetsWritten'
    <3> SUFFICES ASSUME TargetsRecorded' PROVE Scraping' /\ TargetsWritten'
      OBVIOUS
    <3>1. Render(config)[Prometheus] = Render(config')[Prometheus]
      BY <2>1, <1>1 DEF TargetsRecorded
    <3>2. /\ config.role = "full" <=> config'.role = "full"
          /\ OnNode(config)[Prometheus] = OnNode(config')[Prometheus]
      BY <3>1, <1>1, TargetsFile
    <3> QED BY <3>1, <3>2, <2>2, <1>1 DEF Scraping, PrometheusScrapes, TargetsWritten
  <2>4. state.files[Prometheus] = None => prometheus = None
    BY <2>1, <2>2, <1>1, TargetsFile DEF TargetsRecorded, Scraping, PrometheusScrapes
  <2> QED BY <2>3, <2>4, <1>1 DEF TargetsFileInv, ScrapingInv, After, ApplyPcs
<1>4. CASE Blank
  <2>1. state.files[Prometheus] = None /\ prometheus = None
    BY <1>4 DEF Blank, EmptyState, NoFiles, Rels, LitellmRels
  <2>2. TargetsRecorded' => Scraping' /\ TargetsWritten'
    BY <2>1, <1>1, TargetsFile DEF TargetsRecorded, Scraping, PrometheusScrapes, TargetsWritten
  <2> QED BY <2>1, <2>2, <1>1 DEF TargetsFileInv, ScrapingInv, After, ApplyPcs
<1> QED BY <1>1, <1>3, <1>4

\* `docker compose up` boots a Prometheus, or leaves one that scrapes or is reloaded next.
LEMMA TargetsCompose ==
  TypeOK /\ PlanInv /\ CurrentInv /\ PrometheusInv /\ ComposeUp => PrometheusInv'
<1> SUFFICES ASSUME TypeOK, PlanInv, CurrentInv, PrometheusInv, ComposeUp, PrometheusClean'
             PROVE  TargetsFileInv' /\ ScrapingInv'
  BY DEF PrometheusInv
<1>1. /\ PrometheusClean /\ UNCHANGED <<config, disk, state, plan>>
      /\ pc = "compose" /\ pc' = "reload" /\ "edit" \notin mishaps
  BY DEF PrometheusClean, ComposeUp, Goto
<1>2. TargetsFileInv /\ ScrapingInv
  BY <1>1 DEF PrometheusInv
<1>3. view = config /\ TargetsWritten
  BY <1>1, <1>2 DEF CurrentInv, CurrentView, TargetsFileInv, ApplyPcs
<1>4. /\ ~plan.compose => TargetsRecorded
      /\ ~plan.reload /\ config.role = "full" /\ state.files[Prometheus] # None => TargetsRecorded
  BY <1>1, <1>3, PlanDaemons DEF ApplyPcs, TargetsRecorded, LitellmRels
<1>5. Scraping' \/ (plan.reload /\ prometheus' = prometheus /\ prometheus # None)
  <2>1. CASE ~plan.compose
    BY <2>1, <1>1, <1>2, <1>4 DEF ComposeUp, ScrapingInv, Scraping, PrometheusScrapes
  <2>2. CASE plan.compose /\ config.role # "full"
    BY <2>2, <1>1, <1>3 DEF ComposeUp, UpOrRecreated, Scraping, PrometheusScrapes
  <2>3. CASE plan.compose /\ config.role = "full"
    <3>1. prometheus' = disk[Prometheus] \/ (prometheus' = prometheus /\ prometheus # None)
      BY <2>3, <1>3 DEF ComposeUp, UpOrRecreated
    <3>2. prometheus' = prometheus /\ prometheus # None /\ ~plan.reload => Scraping
      BY <2>3, <1>1, <1>2, <1>4 DEF ScrapingInv
    <3> QED BY <2>3, <3>1, <3>2, <1>1, <1>3, LoadsTargets DEF Scraping, PrometheusScrapes
  <2> QED BY <2>1, <2>2, <2>3
<1> QED BY <1>1, <1>2, <1>3, <1>5, SameTargets DEF TargetsFileInv, ScrapingInv, After

\* Prometheus is hot-reloaded, goes away, or boots again.
LEMMA TargetsDaemons ==
  /\ TypeOK /\ PlanInv /\ CurrentInv /\ PrometheusInv
  /\ ReloadPrometheus \/ RestartGateway \/ ComposeDown \/ LitellmRestart \/ ContainersReboot
  => PrometheusInv'
<1> SUFFICES ASSUME TypeOK, PlanInv, CurrentInv, PrometheusInv, PrometheusClean',
                    ReloadPrometheus \/ RestartGateway \/ ComposeDown \/ LitellmRestart
                      \/ ContainersReboot
             PROVE  TargetsFileInv' /\ ScrapingInv'
  BY DEF PrometheusInv
<1> USE DEF ReloadPrometheus, RestartGateway, ComposeDown, LitellmRestart, ContainersReboot, Goto, Note
<1>1. PrometheusClean /\ UNCHANGED <<config, disk, state, plan>> /\ "edit" \notin mishaps
  BY DEF PrometheusClean
<1>2. TargetsFileInv /\ ScrapingInv
  BY <1>1 DEF PrometheusInv
<1>3. TargetsFileInv'
  <2>1. pc' \in ApplyPcs \ {"write"} => pc \in ApplyPcs \ {"write"}
    BY DEF ApplyPcs
  <2> QED BY <2>1, <1>1, <1>2, SameTargets DEF TargetsFileInv
<1>4. CASE ReloadPrometheus
  <2>1. pc = "reload" /\ view = config /\ TargetsWritten
    BY <1>1, <1>2, <1>4 DEF CurrentInv, CurrentView, TargetsFileInv, ApplyPcs
  <2>2. plan.reload => prometheus' = disk[Prometheus] /\ config.role = "full"
    BY <2>1, <1>4, PlanDaemons DEF PrometheusClean, ApplyPcs
  <2>3. ~plan.reload => Scraping /\ prometheus' = prometheus
    BY <2>1, <1>2, <1>4 DEF ScrapingInv
  <2>4. Scraping'
    BY <2>1, <2>2, <2>3, <1>1, LoadsTargets, SameTargets
  <2> QED BY <2>1, <2>4, <1>1, <1>3, <1>4 DEF ScrapingInv, After, TargetsWritten
<1>5. CASE RestartGateway \/ LitellmRestart
  BY <1>1, <1>2, <1>3, <1>5, SameTargets DEF ScrapingInv, After
<1>6. CASE ComposeDown
  <2>1. prometheus' = None
    BY <1>6 DEF PrometheusClean
  <2> QED BY <2>1, <1>3, <1>6 DEF ScrapingInv, After
<1>7. CASE ContainersReboot
  <2>1. Scraping /\ TargetsWritten => Scraping'
    <3>1. CASE prometheus = None
      BY <3>1, <1>1, <1>7 DEF Scraping, PrometheusScrapes
    <3>2. CASE prometheus # None
      BY <3>2, <1>1, <1>7, LoadsTargets DEF Scraping, PrometheusScrapes
    <3> QED BY <3>1, <3>2
  <2>2. /\ TargetsRecorded => TargetsWritten
        /\ pc \in After \cup {"reload", "bounce", "save"} => TargetsWritten
    BY <1>2 DEF TargetsFileInv, ApplyPcs, After
  <2>3. prometheus = None => prometheus' = None
    BY <1>7
  <2> QED BY <2>1, <2>2, <2>3, <1>1, <1>2, <1>3, <1>7, SameTargets DEF ScrapingInv
<1> QED BY <1>4, <1>5, <1>6, <1>7

\* converge.py:321-326: when config.yaml is recorded as applied, Prometheus has
\* loaded the configured targets, whatever failed, rebooted or was killed before.
THEOREM PrometheusIsFresh == Spec => []PrometheusFresh
<1>1. Init => PrometheusInv
  <2> SUFFICES ASSUME Init PROVE TargetsFileInv /\ ScrapingInv
    BY DEF PrometheusInv
  <2>1. state.files[Prometheus] = None /\ prometheus = None /\ config \in Configs
    BY DEF Init, EmptyState, NoFiles, LitellmRels, Rels
  <2>2. TargetsRecorded => Scraping /\ TargetsWritten
    BY <2>1, TargetsFile DEF TargetsRecorded, Scraping, PrometheusScrapes, TargetsWritten
  <2> QED BY <2>1, <2>2 DEF Init, TargetsFileInv, ScrapingInv, After, ApplyPcs
<1>2. TypeOK /\ PlanInv /\ CurrentInv /\ PrometheusInv /\ [Next]_vars => PrometheusInv'
  BY DaemonShapes, TargetsPass, TargetsFileSteps, TargetsRecords, TargetsEdits, TargetsCompose,
     TargetsDaemons
<1>3. PrometheusInv => PrometheusFresh
  BY DEF PrometheusInv, PrometheusClean, ScrapingInv, PrometheusFresh, Settled, ConvergedState,
         TargetsRecorded, Scraping
<1> QED BY <1>1, <1>2, <1>3, TypeCorrect, PlanHolds, CurrentHolds, PTL DEF Spec
=============================================================================
