----------------------------- MODULE MCSandbox -----------------------------
(***************************************************************************)
(* For TLC, the sandbox actor, with two callers and a cheap and a dear     *)
(* capability; or the content of the guest it runs, one capability at a    *)
(* time.                                                                   *)
(***************************************************************************)
EXTENDS Sandbox, Content, TLC

CONSTANTS p, q, loot, combat

VARIABLE part

MCClient == {p, q}
MCCapability == {loot, combat}
MCCost == loot :> 1 @@ combat :> 3

\* The content's arguments vary only where it is what runs.
MCInit ==
    /\ part \in {"actor", "guest"}
    /\ Init /\ ContentInit
    /\ part = "actor" => capability = "combat_replay"

Serving == part = "actor" /\ Next /\ UNCHANGED <<part, contentVars>>
Playing == part = "guest" /\ ContentNext /\ UNCHANGED <<part, vars>>

MCSpec ==
    /\ MCInit /\ [][Serving \/ Playing]_<<part, vars, contentVars>>
    /\ WF_vars(part = "actor" /\ Start) /\ CallFairness
=============================================================================
