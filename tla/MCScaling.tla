------------------------------ MODULE MCScaling ------------------------------
(* Three hosts, a spanning model and two single-node ones, for TLC. *)
EXTENDS Scaling

MCHosts      == {"h1", "h2", "h3"}
MCHostOrder  == {<<"h1", "h2">>, <<"h1", "h3">>, <<"h2", "h3">>}
MCModels     == {"wide", "solo", "side"}
MCMinNodes   == [m \in MCModels |-> IF m = "wide" THEN 2 ELSE 1]
MCServedAs   == [h \in MCHosts |-> [m \in MCModels |-> IF h = "h2" /\ m = "side" THEN "solo" ELSE m]]
MCRole       == [h \in MCHosts |-> IF h = "h3" THEN "exporters" ELSE "full"]

\* Written by hand: at most two hosts in a list, and always an `active:` key.
Written == [active : [MCModels -> {"true", "false"}],
            hosts  : [MCModels -> {l \in HostLists : Cardinality(l.on) <= 2} \cup {Unset}]]

\* Also those where a model that is switched off still lists hosts, as the one in
\* config.example.yaml does.
Startable == {c \in Written : Usable(c)}

\* Nothing is in use.
Idle == {[active |-> [m \in MCModels |-> "false"], hosts |-> [m \in MCModels |-> Unset]]}
=============================================================================
