------------------------------ MODULE MCCluster ------------------------------
(* Small clusters for TLC: a model that spans two hosts and a single-node one. *)
EXTENDS Cluster, Sequences

MCHosts     == {"h1", "h2", "h3"}
MCHostOrder == {<<"h1", "h2">>, <<"h1", "h3">>, <<"h2", "h3">>}
MCModels    == {"wide", "solo"}
MCMinNodes  == [m \in MCModels |-> IF m = "wide" THEN 2 ELSE 1]
MCServedAs  == [h \in MCHosts |-> [m \in MCModels |-> m]]
MCRole      == [h \in MCHosts |-> IF h = "h1" THEN "full" ELSE "exporters"]

On(l) == [on |-> {l[i] : i \in DOMAIN l},
          before |-> {<<l[i], l[j]>> : <<i, j>> \in {p \in (DOMAIN l) \X (DOMAIN l) : p[1] < p[2]}}]

Placed(wide, solo) ==
  [active |-> [m \in MCModels |-> IF (m = "wide" /\ wide # << >>) \/ (m = "solo" /\ solo # << >>)
                                  THEN "true" ELSE "false"],
   hosts  |-> [m \in MCModels |-> On(IF m = "wide" THEN wide ELSE solo)]]

Wide  == {Placed(<<"h1", "h2", "h3">>, << >>)}
=============================================================================
