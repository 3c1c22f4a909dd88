-------------------------------- MODULE Node --------------------------------
(***************************************************************************)
(* What spark-lab promises about one managed node, whatever steps a        *)
(* converge takes to get there: state.json is a ledger of the workloads    *)
(* the node has to account for (core/state.py:11-14, core/converge.py:7-14)*)
(* and a job (one run of _converge_one, commands/apply.py) works from it.  *)
(*                                                                         *)
(* A job takes down only workloads the ledger accounts for, and only when  *)
(* it may restart; it launches only its own recipe; and the ledger drops a *)
(* confirmed workload only once everything it accounted for is down or is  *)
(* the wanted recipe.  A job may be abandoned at any point; other commands *)
(* may stop workloads and rewrite the ledger, but not while a job runs.    *)
(***************************************************************************)

CONSTANTS
  Models, Contents, None,
  MayExit,   \* workloads exit on their own
  MayTear    \* state.json may be left half-written, which reads as empty

VARIABLES
  ledger,   \* state.json: the managed recipes, and the confirmed workload
  up,       \* the running workloads and the content each was started with
  job       \* what the running converge has set out to do

vars == <<ledger, up, job>>

Entries == [name : Models, hash : Contents] \cup {None}
Ledgers == [recipes : SUBSET Models, model : Entries]

\* wanted: its recipe; content: what the node's copy of it holds; hash: what the
\* ledger will say; launch: it owns the workload; restart: it may stop workloads;
\* pending: it may not, although it would have to.
Jobs == [wanted : Models \cup {None}, content : Contents \cup {None}, hash : Contents \cup {None},
         launch : BOOLEAN, restart : BOOLEAN, pending : BOOLEAN]

\* Every workload the ledger has to account for.
Accounted(l) == l.recipes \cup {m \in Models : l.model # None /\ l.model.name = m}

Confirmed(j) == IF j.wanted = None THEN None ELSE [name |-> j.wanted, hash |-> j.hash]
Managed(j)   == IF j.wanted = None THEN {} ELSE {j.wanted}

NoLedger == [recipes |-> {}, model |-> None]

Init ==
  /\ ledger = NoLedger
  /\ up = [m \in Models |-> None]
  /\ job = None

Begin ==
  /\ job = None
  /\ job' \in Jobs
  /\ UNCHANGED <<ledger, up>>

TakeDown(S) == up' = [m \in Models |-> IF m \in S THEN None ELSE up[m]]

\* Stopping what runs takes permission, and an entry that says it may run.
Stop ==
  /\ job # None /\ job.launch /\ job.restart
  /\ \E S \in SUBSET Accounted(ledger) : TakeDown(S)
  /\ UNCHANGED <<ledger, job>>

Launch ==
  /\ job # None /\ job.launch /\ job.wanted # None
  /\ up[job.wanted] = None
  /\ up' = [up EXCEPT ![job.wanted] = job.content]
  /\ UNCHANGED <<ledger, job>>

End(new) == ledger' = new /\ job' = None /\ UNCHANGED up

\* Nothing the ledger accounts for is left behind: its entry may be replaced.
Finish ==
  /\ job # None /\ job.launch /\ ~job.pending
  /\ \A m \in Accounted(ledger) \ Managed(job) : up[m] = None
  /\ End([recipes |-> Managed(job), model |-> Confirmed(job)])

\* Something may be: the confirmed workload stays in the ledger.
Postpone ==
  /\ job # None
  /\ job.pending \/ (job.wanted = None /\ ~job.restart)
  /\ End([recipes |-> Managed(job), model |-> ledger.model])

\* A host that was told not to launch takes its workload for granted, and without
\* a wanted one, with leave to stop, what ran before for stopped.
Trust ==
  /\ job # None /\ ~job.launch
  /\ job.wanted # None \/ job.restart
  /\ End([recipes |-> Managed(job), model |-> Confirmed(job)])

Abandon ==
  /\ job # None
  /\ End(ledger) \/ (MayTear /\ End(NoLedger))

WorkloadExits ==
  /\ MayExit
  /\ \E m \in Models : TakeDown({m})
  /\ UNCHANGED <<ledger, job>>

\* model stop and teardown take workloads down, and record it later or never.
StopByHand ==
  /\ job = None
  /\ \E m \in Models : TakeDown({m})
  /\ UNCHANGED <<ledger, job>>

\* model stop, teardown, adopt, half-written files.
Rewrite ==
  /\ job = None
  /\ ledger' \in Ledgers
  /\ UNCHANGED <<up, job>>

Next ==
  \/ Begin \/ Stop \/ Launch \/ Finish \/ Postpone \/ Trust \/ Abandon
  \/ WorkloadExits \/ StopByHand \/ Rewrite

Spec == Init /\ [][Next]_vars
=============================================================================
