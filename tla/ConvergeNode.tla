----------------------------- MODULE ConvergeNode -----------------------------
(***************************************************************************)
(* Converge implements Node: a job is a running apply, from its plan to    *)
(* its last step, the ledger is what state.json says about recipes, and    *)
(* the other commands act between jobs.                                    *)
(***************************************************************************)
EXTENDS Converge

Ledger == [recipes |-> {m \in Models : state.files[m] # None}, model |-> state.model]

\* A plan that launches ensures its model, and without one never counts it as converged.
Job ==
  IF pc \notin ApplyPcs THEN None
  ELSE [wanted  |-> view.recipe,
        content |-> IF HasModel(view) THEN OnNode(view)[view.recipe] ELSE None,
        hash    |-> CurrentHash(view),
        launch  |-> plan.ensure \/ (~HasModel(view) /\ ~plan.converged),
        restart |-> plan.restart,
        pending |-> plan.pending]

N == INSTANCE Node WITH ledger <- Ledger, up <- running, job <- Job,
                        MayExit <- "exit" \in Faults, MayTear <- "torn" \in Faults

ASSUME JobAssumption == None \notin N!Jobs

\* converge.py:7-14, state.py:11-14: every step of every command is a step the
\* node's ledger allows.
ImplementsNode == N!Spec
=============================================================================
