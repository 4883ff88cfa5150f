-------------------------------- MODULE Nif --------------------------------
(***************************************************************************)
(* What the taskweft NIF answers besides plans: a behaviour is scheduler   *)
(* threads calling it through its parse caches, a graph that grows and is  *)
(* queried, a plan that is timed, or a duration that is parsed.            *)
(***************************************************************************)
EXTENDS NifCaches, Rebac, Temporal

VARIABLE service

nifVars == <<service, vars, edges, dur, temporalVars>>

NifInit ==
    /\ service \in {"caches", "rebac", "temporal", "duration"}
    /\ Init /\ RebacInit /\ DurationInit /\ TemporalInit

Caches   == service = "caches" /\ Next /\ UNCHANGED <<service, edges, dur, temporalVars>>
Graph    == service = "rebac" /\ AddEdge /\ UNCHANGED <<service, vars, dur, temporalVars>>
Timing   == service = "temporal" /\ TemporalNext /\ UNCHANGED <<service, vars, edges, dur>>
Duration == service = "duration" /\ Type /\ UNCHANGED <<service, vars, edges, temporalVars>>

NifNext == Caches \/ Graph \/ Timing \/ Duration
=============================================================================
