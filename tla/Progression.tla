---------------------------- MODULE Progression ----------------------------
(***************************************************************************)
(* The progression reducer of the guest content                            *)
(* (c_src/guest/content/progression.scm): inventory, credits, affinity and *)
(* the arts bought with them.  One action per outcome of progression-step. *)
(* The history variables sum up the event log that progression-replay      *)
(* returns next to the profile.                                            *)
(***************************************************************************)
EXTENDS Integers, Sequences, FiniteSetsExt

CONSTANTS Item, Art,      \* positive integers, as in the event lists
          Price,          \* the prices of sell events
          MaxGrants,      \* bound: grants of each item
          MaxAffinity     \* bound: affinity reached by training

ASSUME ProgressionAssumption ==
    /\ Item \subseteq Nat /\ Art \subseteq Nat /\ Price \subseteq Nat
    /\ MaxGrants \in Nat /\ MaxAffinity \in Nat

VARIABLES credits, affinity,
          items,                   \* list of (item . count) pairs
          arts,                    \* list of the arts learned, oldest first
          granted, sold,           \* log: granted and sold events per item
          earned,                  \* log: sum of the prices of sold events
          spent                    \* log: sum of the costs of learned events

eventLog  == <<granted, sold, earned, spent>>
profileVars == <<credits, affinity, items, arts, eventLog>>

ArtCost(a) == CASE a = 1 -> 100 [] a = 2 -> 250 [] OTHER -> 500

ArtAffinityReq(a) == CASE a = 1 -> 10 [] a = 2 -> 25 [] OTHER -> 40

Held(item) == {i \in 1 .. Len(items) : items[i][1] = item}

\* assoc finds the first entry of an item.
CountOf(item) == IF Held(item) = {} THEN 0 ELSE items[Min(Held(item))][2]

\* Every entry of the item changes its count by `d'.
Adjust(item, d) ==
    [i \in 1 .. Len(items) |->
        IF items[i][1] = item THEN <<item, items[i][2] + d>> ELSE items[i]]

\* Faulty add-item: a second entry for an item already held.
AddItemAgain(item, d) == Append(items, <<item, d>>)

AddItem(item, d) ==
    IF Held(item) # {} THEN Adjust(item, d) ELSE Append(items, <<item, d>>)

RemoveItem(item) == SelectSeq(Adjust(item, -1), LAMBDA e : e[2] > 0)

Learned(a) == \E i \in 1 .. Len(arts) : arts[i] = a

-----------------------------------------------------------------------------
ProfileInit ==
    /\ credits = 200 /\ affinity = 15 /\ items = <<>> /\ arts = <<>>
    /\ granted = [i \in Item |-> 0] /\ sold = [i \in Item |-> 0]
    /\ earned = 0 /\ spent = 0

Grant(item) ==
    /\ granted[item] < MaxGrants
    /\ items' = AddItem(item, 1)
    /\ granted' = [granted EXCEPT ![item] = @ + 1]
    /\ UNCHANGED <<credits, affinity, arts, sold, earned, spent>>

\* A sell of an item that is not held is refused and changes nothing.
Sell(item, price) ==
    /\ CountOf(item) # 0
    /\ credits' = credits + price
    /\ items' = RemoveItem(item)
    /\ sold' = [sold EXCEPT ![item] = @ + 1]
    /\ earned' = earned + price
    /\ UNCHANGED <<affinity, arts, granted, spent>>

\* buyArt refuses a duplicate, an art above the affinity, an art too dear.
Affords(a) ==
    /\ ~Learned(a)
    /\ affinity >= ArtAffinityReq(a)
    /\ credits >= ArtCost(a)

BuyArt(a) ==
    /\ Affords(a)
    /\ credits' = credits - ArtCost(a)
    /\ arts' = Append(arts, a)
    /\ spent' = spent + ArtCost(a)
    /\ UNCHANGED <<affinity, items, granted, sold, earned>>

Train ==
    /\ affinity < MaxAffinity
    /\ affinity' = affinity + 1
    /\ UNCHANGED <<credits, items, arts, eventLog>>

ProfileNext ==
    \/ \E i \in Item : Grant(i)
    \/ \E i \in Item, p \in Price : Sell(i, p)
    \/ \E a \in Art : BuyArt(a)
    \/ Train

ProfileSpec == ProfileInit /\ [][ProfileNext]_profileVars

-----------------------------------------------------------------------------
(* Properties                                                              *)

\* Every variable keeps its type; credits never go below zero although
\* progression-step subtracts art costs from them.
ProfileTypeOK ==
    /\ credits \in Nat /\ affinity \in Nat
    /\ arts \in Seq(Art)
    /\ granted \in [Item -> Nat] /\ sold \in [Item -> Nat]
    /\ earned \in Nat /\ spent \in Nat

\* The record is what the event log adds up to, after any sequence of grants,
\* sells and trainings: the inventory list has one entry per item held, with
\* its count, and no empty entry (add-item, remove-item and count-of agree
\* about it), and each art learned was paid for once.
RecordMatchesLog ==
    /\ \A i, j \in 1 .. Len(items) : items[i][1] = items[j][1] => i = j
    /\ \A i \in 1 .. Len(items) : items[i][2] > 0
    /\ \A i \in Item : CountOf(i) = granted[i] - sold[i]
    /\ credits + spent = 200 + earned
    /\ spent = FoldSet(LAMBDA i, acc : acc + ArtCost(arts[i]), 0, 1 .. Len(arts))

\* No art is learned twice, and each one's affinity gate is met for good.
ArtsEarned ==
    /\ \A i, j \in 1 .. Len(arts) : arts[i] = arts[j] => i = j
    /\ \A i \in 1 .. Len(arts) : affinity >= ArtAffinityReq(arts[i])

\* Arts and affinity are never lost: the arts list only grows at its end.
NothingForgotten ==
    [][/\ affinity' >= affinity
       /\ Len(arts') >= Len(arts) /\ SubSeq(arts', 1, Len(arts)) = arts]_profileVars
=============================================================================
