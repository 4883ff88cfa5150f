------------------------- MODULE ProgressionProofs -------------------------
(***************************************************************************)
(* What holds of the progression reducer for all items, arts and prices.   *)
(***************************************************************************)
EXTENDS Progression, TLAPS

\* The inductive invariant: types and arts.
ProgressInv == ProfileTypeOK /\ ArtsEarned

\* The costs and gates of art-cost and art-affinity-req are natural numbers.
LEMMA CostsNat == \A a : ArtCost(a) \in Nat /\ ArtAffinityReq(a) \in Nat
  BY DEF ArtCost, ArtAffinityReq

\* Every outcome of progression-step preserves the inductive invariant.
LEMMA StepKeepsInv == ProgressInv /\ [ProfileNext]_profileVars => ProgressInv'
<1> SUFFICES ASSUME ProgressInv, [ProfileNext]_profileVars PROVE ProgressInv'
  OBVIOUS
<1> USE ProgressionAssumption DEF ProgressInv
<1>1. ASSUME NEW i \in Item, Grant(i) PROVE ProgressInv'
  <2>1. ProfileTypeOK'
    BY <1>1 DEF Grant, ProfileTypeOK
  <2>2. ArtsEarned'
    BY <1>1 DEF Grant, ArtsEarned
  <2> QED BY <2>1, <2>2
<1>2. ASSUME NEW i \in Item, NEW p \in Price, Sell(i, p) PROVE ProgressInv'
  <2>1. ProfileTypeOK'
    BY <1>2 DEF Sell, ProfileTypeOK
  <2>2. ArtsEarned'
    BY <1>2 DEF Sell, ArtsEarned
  <2> QED BY <2>1, <2>2
<1>3. ASSUME NEW a \in Art, BuyArt(a) PROVE ProgressInv'
  <2>1. ProfileTypeOK'
    <3>1. /\ credits' = credits - ArtCost(a) /\ credits >= ArtCost(a)
          /\ spent' = spent + ArtCost(a)
      BY <1>3 DEF BuyArt, Affords
    <3>2. credits' \in Nat /\ spent' \in Nat
      BY <3>1, CostsNat DEF ProfileTypeOK
    <3>3. arts' \in Seq(Art)
      BY <1>3 DEF BuyArt, ProfileTypeOK
    <3> QED BY <1>3, <3>2, <3>3 DEF BuyArt, ProfileTypeOK
  <2>2. arts \in Seq(Art) /\ arts' = Append(arts, a) /\ affinity' = affinity
    BY <1>3 DEF BuyArt, ProfileTypeOK
  <2>3. /\ Len(arts') = Len(arts) + 1 /\ arts'[Len(arts) + 1] = a
        /\ \A i \in 1 .. Len(arts) : arts'[i] = arts[i]
        /\ Len(arts) \in Nat
    BY <2>2
  <2>4. \A i \in 1 .. Len(arts) : arts[i] # a
    BY <1>3 DEF BuyArt, Affords, Learned
  <2>5. affinity >= ArtAffinityReq(a)
    BY <1>3 DEF BuyArt, Affords
  <2>6. ASSUME NEW i \in 1 .. Len(arts'), NEW j \in 1 .. Len(arts'),
               arts'[i] = arts'[j]
        PROVE  i = j
    <3>1. i \in 1 .. Len(arts) \/ i = Len(arts) + 1
      BY <2>3
    <3>2. j \in 1 .. Len(arts) \/ j = Len(arts) + 1
      BY <2>3
    <3> QED BY <2>3, <2>4, <2>6, <3>1, <3>2 DEF ArtsEarned
  <2>7. ASSUME NEW i \in 1 .. Len(arts')
        PROVE  affinity' >= ArtAffinityReq(arts'[i])
    <3>1. CASE i \in 1 .. Len(arts)
      <4>1. affinity >= ArtAffinityReq(arts[i])
        BY <3>1 DEF ArtsEarned
      <4> QED BY <2>2, <2>3, <3>1, <4>1
    <3>2. CASE i = Len(arts) + 1
      BY <2>2, <2>3, <2>5, <3>2
    <3> QED BY <2>3, <3>1, <3>2
  <2>8. ArtsEarned'
    BY <2>6, <2>7 DEF ArtsEarned
  <2> QED BY <2>1, <2>8
<1>4. CASE Train
  <2>1. ProfileTypeOK'
    BY <1>4 DEF Train, eventLog, ProfileTypeOK
  <2>2. affinity \in Nat /\ affinity' = affinity + 1 /\ arts' = arts
    BY <1>4 DEF Train, ProfileTypeOK
  <2>3. \A i \in 1 .. Len(arts) : affinity' >= ArtAffinityReq(arts[i])
    BY <2>2, CostsNat DEF ArtsEarned
  <2>4. ArtsEarned'
    BY <2>2, <2>3 DEF ArtsEarned
  <2> QED BY <2>1, <2>4
<1>5. CASE UNCHANGED profileVars
  <2>1. ProfileTypeOK'
    BY <1>5 DEF profileVars, eventLog, ProfileTypeOK
  <2>2. ArtsEarned'
    BY <1>5 DEF profileVars, ArtsEarned
  <2> QED BY <2>1, <2>2
<1> QED BY <1>1, <1>2, <1>3, <1>4, <1>5 DEF ProfileNext

\* The initial profile satisfies the inductive invariant.
LEMMA InitInv == ProfileInit => ProgressInv
<1> SUFFICES ASSUME ProfileInit PROVE ProgressInv
  OBVIOUS
<1>1. ProfileTypeOK
  BY DEF ProfileInit, ProfileTypeOK
<1>2. ArtsEarned
  BY DEF ProfileInit, ArtsEarned
<1> QED BY <1>1, <1>2 DEF ProgressInv

\* No sequence of events makes progression-step learn an art twice, below its
\* affinity gate, or on credits the profile does not have.
THEOREM ArtsAlwaysEarned == ProfileSpec => [](ProfileTypeOK /\ ArtsEarned)
<1>1. ProgressInv => ProfileTypeOK /\ ArtsEarned
  BY DEF ProgressInv
<1> QED BY <1>1, InitInv, StepKeepsInv, PTL DEF ProfileSpec

\* No event makes progression-step lose affinity or drop or reorder an art.
THEOREM NothingEverForgotten == ProfileSpec => NothingForgotten
<1> DEFINE Keeps == /\ affinity' >= affinity
                    /\ Len(arts') >= Len(arts)
                    /\ SubSeq(arts', 1, Len(arts)) = arts
<1>1. ProgressInv /\ [ProfileNext]_profileVars => [Keeps]_profileVars
  <2> SUFFICES ASSUME ProgressInv, ProfileNext PROVE Keeps
    OBVIOUS
  <2>1. affinity \in Nat /\ arts \in Seq(Art)
    BY DEF ProgressInv, ProfileTypeOK
  <2>2. affinity' = affinity \/ affinity' = affinity + 1
    BY DEF ProfileNext, Grant, Sell, BuyArt, Train
  <2>3. arts' = arts \/ \E a \in Art : arts' = Append(arts, a)
    BY DEF ProfileNext, Grant, Sell, BuyArt, Train
  <2>4. SubSeq(arts, 1, Len(arts)) = arts
    BY <2>1
  <2>5. \A a \in Art : SubSeq(Append(arts, a), 1, Len(arts)) = arts
                       /\ Len(Append(arts, a)) = Len(arts) + 1
    BY <2>1
  <2>6. Len(arts) \in Nat
    BY <2>1
  <2> QED BY <2>1, <2>2, <2>3, <2>4, <2>5, <2>6
<1>2. ProfileSpec => []ProgressInv
  BY InitInv, StepKeepsInv, PTL DEF ProfileSpec
<1> QED BY <1>1, <1>2, PTL DEF ProfileSpec, NothingForgotten
=============================================================================
