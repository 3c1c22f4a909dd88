----------------------------- MODULE MCConverge -----------------------------
(* Small configurations of Converge for TLC. *)
EXTENDS ConvergeNode

MCModels   == {"a", "b"}
MCContents == {"1", "2", "raw", "abs", "plain", "with_extra"}
MCExpanded == [x \in MCContents |-> IF x = "raw" THEN "abs" ELSE x]
MCPort     == [m \in MCModels |-> 30000]

\* A view that serves recipe m (or none) with content rev; the model list names
\* the recipe, and config.yaml changes when extra models are declared.
MCView(m, rev, extra, cp, role) ==
  [recipe |-> m,
   content |-> [r \in MCModels \cup LitellmRels |->
      CASE r \in MCModels    -> rev
        [] r = ModelConfig   -> IF m = "a" THEN "1" ELSE "2"
        [] r = Prometheus    -> IF m = "a" THEN "1" ELSE "2"
        [] r = GwConfig      -> IF extra THEN "with_extra" ELSE "plain"
        [] OTHER             -> "1"],
   image |-> TRUE, spanning |-> FALSE, head |-> FALSE, cluster |-> FALSE,
   controlPlane |-> cp, role |-> role, extra |-> extra]

A1    == MCView("a", "1", FALSE, TRUE, "full")
A2    == MCView("a", "2", FALSE, TRUE, "full")
ARaw  == MCView("a", "raw", FALSE, TRUE, "full")
B1    == MCView("b", "1", FALSE, TRUE, "full")
B1X   == MCView("b", "1", TRUE, TRUE, "full")
Off   == MCView(None, "1", FALSE, TRUE, "exporters")
Bare  == [MCView("b", "1", FALSE, FALSE, "none") EXCEPT !.cluster = TRUE]
NoImage == [B1 EXCEPT !.image = FALSE]
HeadOf  == [B1 EXCEPT !.spanning = TRUE, !.head = TRUE]
Worker  == [B1 EXCEPT !.spanning = TRUE]

Switching == {A1, B1}
Three     == {A1, A2, B1}
Wide      == {A1, A2, B1X, Off}
Lively    == {A1, A2, Off}
Placing   == {ARaw, NoImage, HeadOf, Worker, Bare, Off}
=============================================================================
