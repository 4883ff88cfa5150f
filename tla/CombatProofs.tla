---------------------------- MODULE CombatProofs ----------------------------
(***************************************************************************)
(* Proofs about the combat reducer, for every gap, invulnerability window  *)
(* and enemy health, and every number of ticks.                            *)
(*                                                                         *)
(* CombatInv is the inductive invariant.  ComboFresh and ComboEarned       *)
(* together say where an open combo comes from; StageOrder follows from    *)
(* them because a follow-up reads exactly combo and last-attack.           *)
(* DamageAccounted is inductive given CombatTypeOK.                        *)
(***************************************************************************)
EXTENDS Combat, TLAPS

CombatInv == CombatTypeOK /\ ComboFresh /\ ComboEarned /\ DamageAccounted

\* Every stage deals some damage.
LEMMA DamagePositive == \A stage : DamageOf(stage) \in Nat \ {0}
  BY DEF DamageOf

\* The initial record (initial-state in combat.scm) satisfies the invariant.
LEMMA CombatInvInit == CombatInit => CombatInv
<1> SUFFICES ASSUME CombatInit PROVE CombatInv
  OBVIOUS
<1>1. CombatTypeOK
  <2>1. lastSwing \in [stage : -1 .. 2, tick : Nat]
    BY DEF CombatInit
  <2>2. alive \in BOOLEAN
    BY DEF CombatInit
  <2>3. QED
    BY <2>1, <2>2, CombatAssumption DEF CombatInit, CombatTypeOK
<1>2. ComboFresh /\ ComboEarned
  BY DEF CombatInit, ComboFresh, ComboEarned
<1>3. emitted # <<"swing", "hit", "death">>
  BY DEF CombatInit
<1>4. DamageAccounted
  BY <1>3 DEF CombatInit, DamageAccounted
<1>5. QED
  BY <1>1, <1>2, <1>4 DEF CombatInv

\* resolve-swing keeps health, the alive flag and the damage account in step.
LEMMA ResolveSwingAccount ==
    ASSUME CombatTypeOK, DamageAccounted, NEW stage \in 0 .. 2, ResolveSwing(stage)
    PROVE  /\ hp' \in 0 .. EnemyMaxHp /\ spawn' \in Nat
           /\ alive' \in BOOLEAN /\ dealt' \in Nat
           /\ DamageAccounted'
<1> DEFINE dmg == DamageOf(stage)
<1>1. dmg \in Nat \ {0}
  BY DamagePositive
<1>2. CASE ~alive /\ emitted' = <<"swing">> /\ UNCHANGED <<hp, alive, dealt>>
  BY <1>2 DEF CombatTypeOK, DamageAccounted, ResolveSwing
<1>3. CASE alive /\ emitted' = <<"swing", "blocked">> /\ UNCHANGED <<hp, alive, dealt>>
  BY <1>3 DEF CombatTypeOK, DamageAccounted, ResolveSwing
<1>4. CASE /\ alive /\ hp <= dmg /\ hp' = 0 /\ alive' = FALSE
           /\ dealt' = dealt + dmg
  <2>1. hp = EnemyMaxHp - dealt
    BY <1>4 DEF DamageAccounted
  <2>2. dealt' >= EnemyMaxHp
    BY <1>1, <1>4, <2>1, CombatAssumption DEF CombatTypeOK
  <2>3. hp' \in 0 .. EnemyMaxHp /\ dealt' \in Nat
    BY <1>1, <1>4, CombatAssumption DEF CombatTypeOK
  <2>4. alive' \in BOOLEAN /\ spawn' \in Nat
    BY <1>4 DEF CombatTypeOK, ResolveSwing
  <2>5. DamageAccounted'
    BY <1>4, <2>2 DEF DamageAccounted
  <2>6. QED
    BY <2>3, <2>4, <2>5
<1>5. CASE /\ alive /\ hp > dmg /\ hp' = hp - dmg /\ emitted' = <<"swing", "hit">>
           /\ dealt' = dealt + dmg /\ UNCHANGED alive
  BY <1>1, <1>5, CombatAssumption DEF CombatTypeOK, DamageAccounted, ResolveSwing
<1>6. QED
  BY <1>2, <1>3, <1>4, <1>5 DEF ResolveSwing

\* A swing that leaves combo either closed or one above its stage keeps the
\* whole invariant.
LEMMA SwingKeepsInv ==
    ASSUME CombatInv, NEW stage \in 0 .. 2, NEW next \in 0 .. 2,
           next = 0 \/ next = stage + 1, Swing(stage, next)
    PROVE  CombatInv'
<1>1. /\ hp' \in 0 .. EnemyMaxHp /\ spawn' \in Nat
      /\ alive' \in BOOLEAN /\ dealt' \in Nat
      /\ DamageAccounted'
  BY ResolveSwingAccount DEF Swing, CombatInv
<1>2. CombatTypeOK'
  BY <1>1 DEF Swing, CombatInv, CombatTypeOK
<1>3. ComboFresh'
  BY CombatAssumption DEF Swing, CombatInv, CombatTypeOK, ComboFresh
<1>4. ComboEarned'
  BY DEF Swing, CombatInv, CombatTypeOK, ComboEarned
<1>5. QED
  BY <1>1, <1>2, <1>3, <1>4 DEF CombatInv

\* Every event of combat-step keeps the invariant.
LEMMA CombatInvStep == CombatInv /\ [CombatNext]_combatVars => CombatInv'
<1> SUFFICES ASSUME CombatInv, [CombatNext]_combatVars
             PROVE  CombatInv'
  OBVIOUS
<1> USE CombatAssumption
<1>1. CASE Tick
  BY <1>1 DEF Tick, enemy, CombatInv, CombatTypeOK, ComboFresh, ComboEarned, DamageAccounted
<1>2. CASE Spawn
  BY <1>2 DEF Spawn, CombatInv, CombatTypeOK, ComboFresh, ComboEarned, DamageAccounted
<1>3. CASE Opener
  BY <1>3, SwingKeepsInv DEF Opener
<1>4. CASE FollowUp
  <2>1. combo \in 1 .. 2
    BY <1>4 DEF FollowUp, CombatInv, CombatTypeOK
  <2>2. QED
    BY <1>4, <2>1, SwingKeepsInv DEF FollowUp
<1>5. CASE Whiff
  BY <1>5 DEF Whiff, enemy, CombatInv, CombatTypeOK, ComboFresh, ComboEarned, DamageAccounted
<1>6. CASE UNCHANGED combatVars
  BY <1>6 DEF combatVars, enemy, CombatInv, CombatTypeOK, ComboFresh, ComboEarned, DamageAccounted
<1>7. QED
  BY <1>1, <1>2, <1>3, <1>4, <1>5, <1>6 DEF CombatNext, Attack

\* combat-replay never leaves the invariant, whatever event list it folds.
THEOREM CombatCorrect == CombatSpec => []CombatInv
  BY CombatInvInit, CombatInvStep, PTL DEF CombatSpec

\* The damage account of combat.scm: hp, alive and the reported hits agree in
\* every reachable record, and every reported death is paid for.
THEOREM DamageAccountedAlways == CombatSpec => []DamageAccounted
<1>1. CombatInv => DamageAccounted
  BY DEF CombatInv
<1>2. QED
  BY <1>1, CombatCorrect, PTL

\* A stage-1 or stage-2 swing of combat-step always follows the swing of the
\* stage below, inside the combo window.
THEOREM StageOrderAlways == CombatSpec => StageOrder
<1>1. CombatInv /\ [CombatNext]_combatVars =>
        [lastSwing'.stage >= 1 /\ lastSwing' # lastSwing =>
           /\ lastSwing.stage = lastSwing'.stage - 1
           /\ lastSwing'.tick - lastSwing.tick \in ComboMinGap .. ComboMaxGap]_combatVars
  <2> SUFFICES ASSUME CombatInv, CombatNext,
                      lastSwing'.stage >= 1, lastSwing' # lastSwing
               PROVE  /\ lastSwing.stage = lastSwing'.stage - 1
                      /\ lastSwing'.tick - lastSwing.tick
                           \in ComboMinGap .. ComboMaxGap
    OBVIOUS
  <2>1. FollowUp
    BY DEF CombatNext, Attack, Tick, Spawn, Opener, Swing, Whiff
  <2>2. lastSwing' = [stage |-> combo, tick |-> tick]
    BY <2>1 DEF FollowUp, Swing
  <2>3. lastSwing = [stage |-> combo - 1, tick |-> lastAttack]
    BY <2>1 DEF FollowUp, CombatInv, CombatTypeOK, ComboEarned
  <2>4. QED
    BY <2>1, <2>2, <2>3, CombatAssumption
       DEF FollowUp, InWindow, CombatInv, CombatTypeOK
<1>2. QED
  BY <1>1, CombatCorrect, PTL DEF CombatSpec, StageOrder
=============================================================================
