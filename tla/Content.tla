------------------------------ MODULE Content ------------------------------
(***************************************************************************)
(* The content the guest carries (c_src/guest/weft_guest.c): one capability *)
(* call rolls loot, replays a combat log or replays a progression log, each *)
(* from its own initial record and without a trace in the others.          *)
(***************************************************************************)
EXTENDS Combat, Progression, Loot

VARIABLE capability    \* the call being served

contentVars == <<capability, combatVars, profileVars, lootVars>>

ContentInit ==
    /\ capability \in {"combat_replay", "progression_replay", "loot_roll"}
    /\ CombatInit /\ ProfileInit
    /\ IF capability = "loot_roll" THEN LootInit
       ELSE table = <<>> /\ seed = 0 /\ rolled = -1

CombatReplay ==
    /\ capability = "combat_replay" /\ CombatNext
    /\ UNCHANGED <<capability, profileVars, lootVars>>

ProgressionReplay ==
    /\ capability = "progression_replay" /\ ProfileNext
    /\ UNCHANGED <<capability, combatVars, lootVars>>

RollLoot ==
    /\ capability = "loot_roll" /\ Roll
    /\ UNCHANGED <<capability, combatVars, profileVars>>

ContentNext == CombatReplay \/ ProgressionReplay \/ RollLoot

ContentSpec == ContentInit /\ [][ContentNext]_contentVars
=============================================================================
