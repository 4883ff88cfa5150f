------------------------------- MODULE Combat -------------------------------
(***************************************************************************)
(* The combat reducer the sandboxed guest carries                          *)
(* (c_src/guest/content/combat.scm).  One enemy, one attacker: `tick',     *)
(* `spawn' and `attack' events are folded over a record, and every event   *)
(* also emits a list of outcomes.  The fields of                           *)
(* (define-record state tick combo last-attack hp spawn alive) are         *)
(* variables of their own here; `emitted' is the outcome list of the last  *)
(* event, without the stage and damage numbers, which DamageOf gives.      *)
(*                                                                         *)
(* History variables, used by properties only: `lastSwing' is the stage    *)
(* and the tick of the latest swing, `dealt' the damage reported by `hit'  *)
(* outcomes since the latest spawn.                                        *)
(***************************************************************************)
EXTENDS Integers

CONSTANTS ComboMinGap,   \* combo-min-gap
          ComboMaxGap,   \* combo-max-gap
          InvulnTicks,   \* invuln-ticks
          EnemyMaxHp,    \* enemy-max-hp
          MaxTick        \* bound: the `tick' event stops here

ASSUME CombatAssumption ==
    /\ ComboMinGap \in Nat
    /\ ComboMaxGap \in Nat
    /\ InvulnTicks \in Nat
    /\ EnemyMaxHp \in Nat \ {0}
    /\ MaxTick \in Nat

VARIABLES tick, combo, lastAttack, hp, spawn, alive,
          emitted, lastSwing, dealt

enemy == <<hp, spawn, alive>>
combatVars  == <<tick, combo, lastAttack, enemy, emitted, lastSwing, dealt>>

-----------------------------------------------------------------------------
DamageOf(stage) ==
    IF stage = 0 THEN 10 ELSE IF stage = 1 THEN 15 ELSE 25

\* Faulty resolve-swing: a killing blow leaves the enemy alive.
ResolveSwingImmortal(stage) ==
    /\ UNCHANGED <<spawn, alive>>
    /\ \/ /\ ~alive \/ tick < spawn + InvulnTicks
          /\ emitted' = <<"swing">>
          /\ UNCHANGED <<hp, dealt>>
       \/ /\ alive /\ tick >= spawn + InvulnTicks
          /\ hp' = IF hp <= DamageOf(stage) THEN 0 ELSE hp - DamageOf(stage)
          /\ emitted' = <<"swing", "hit">>
          /\ dealt' = dealt + DamageOf(stage)

\* resolve-swing: the swing meets no enemy, an invulnerable one, one it
\* kills, or one it wounds.
ResolveSwing(stage) ==
    /\ UNCHANGED spawn
    /\ \/ /\ ~alive
          /\ emitted' = <<"swing">>
          /\ UNCHANGED <<hp, alive, dealt>>
       \/ /\ alive /\ tick < spawn + InvulnTicks
          /\ emitted' = <<"swing", "blocked">>
          /\ UNCHANGED <<hp, alive, dealt>>
       \/ /\ alive /\ tick >= spawn + InvulnTicks
          /\ hp <= DamageOf(stage)
          /\ hp' = 0
          /\ alive' = FALSE
          /\ emitted' = <<"swing", "hit", "death">>
          /\ dealt' = dealt + DamageOf(stage)
       \/ /\ alive /\ tick >= spawn + InvulnTicks
          /\ hp > DamageOf(stage)
          /\ hp' = hp - DamageOf(stage)
          /\ emitted' = <<"swing", "hit">>
          /\ dealt' = dealt + DamageOf(stage)
          /\ UNCHANGED alive

Tick ==
    LET drop == combo > 0 /\ tick' > lastAttack + ComboMaxGap
    IN  /\ tick < MaxTick
        /\ tick' = tick + 1
        /\ combo' = IF drop THEN 0 ELSE combo
        /\ emitted' = IF drop THEN <<"comboDrop">> ELSE <<>>
        /\ UNCHANGED <<lastAttack, enemy, lastSwing, dealt>>

Spawn ==
    /\ alive' = TRUE
    /\ hp' = EnemyMaxHp
    /\ spawn' = tick
    /\ emitted' = <<>>
    /\ dealt' = 0
    /\ UNCHANGED <<tick, combo, lastAttack, lastSwing>>

\* An attack that swings: `stage' is the stage it hits with, `next' the combo
\* counter it leaves.
Swing(stage, next) ==
    /\ combo' = next
    /\ lastAttack' = tick
    /\ lastSwing' = [stage |-> stage, tick |-> tick]
    /\ ResolveSwing(stage)
    /\ UNCHANGED tick

Opener ==
    /\ combo = 0
    /\ Swing(0, 1)

\* Faulty window: off by one at the near end.
InWindowEarly ==
    LET gap == tick - lastAttack
    IN  ComboMinGap <= gap + 1 /\ gap <= ComboMaxGap

InWindow ==
    LET gap == tick - lastAttack
    IN  ComboMinGap <= gap /\ gap <= ComboMaxGap

FollowUp ==
    /\ combo # 0
    /\ InWindow
    /\ Swing(combo, IF combo >= 2 THEN 0 ELSE combo + 1)

Whiff ==
    /\ combo # 0
    /\ ~InWindow
    /\ combo' = 0
    /\ emitted' = <<"whiff">>
    /\ UNCHANGED <<tick, lastAttack, enemy, lastSwing, dealt>>

Attack == Opener \/ FollowUp \/ Whiff

CombatInit ==
    /\ tick = 0 /\ combo = 0 /\ lastAttack = 0
    /\ hp = 0 /\ spawn = 0 /\ alive = FALSE
    /\ emitted = <<>>
    /\ lastSwing = [stage |-> -1, tick |-> 0]
    /\ dealt = 0

CombatNext == Tick \/ Spawn \/ Attack

CombatSpec == CombatInit /\ [][CombatNext]_combatVars

-----------------------------------------------------------------------------
\* The record holds numbers of the right sign; combo is one of the stages.
CombatTypeOK ==
    /\ tick \in Nat /\ combo \in 0 .. 2 /\ lastAttack \in Nat
    /\ hp \in 0 .. EnemyMaxHp /\ spawn \in Nat /\ alive \in BOOLEAN
    /\ lastSwing \in [stage : -1 .. 2, tick : Nat]
    /\ dealt \in Nat

\* An open combo never outlives its window: while combo-step keeps combo
\* above 0 the latest attack is at most combo-max-gap ticks old, because the
\* tick event drops the combo before an attack can see a larger gap.
ComboFresh ==
    combo > 0 => lastAttack <= tick /\ tick <= lastAttack + ComboMaxGap

\* A combo counter above 0 is earned: the latest swing had the stage just
\* below it and happened at last-attack.
ComboEarned ==
    combo > 0 => lastSwing = [stage |-> combo - 1, tick |-> lastAttack]

\* hp and alive agree, and hp is the spawn health less every hit reported
\* since: `hit' outcomes account for all the damage an enemy has taken, and a
\* death is reported only once that damage adds up to the spawn health.
DamageAccounted ==
    /\ alive <=> hp > 0
    /\ alive => hp = EnemyMaxHp - dealt
    /\ emitted = <<"swing", "hit", "death">> => dealt >= EnemyMaxHp

\* A swing of stage 1 or 2 follows the swing of the stage before it, between
\* combo-min-gap and combo-max-gap ticks later: no order of ticks, spawns,
\* whiffs and attacks skips a stage or stretches the rhythm.
StageOrder ==
    [][lastSwing'.stage >= 1 /\ lastSwing' # lastSwing =>
          /\ lastSwing.stage = lastSwing'.stage - 1
          /\ lastSwing'.tick - lastSwing.tick \in ComboMinGap .. ComboMaxGap]_combatVars
=============================================================================
