-------------------------------- MODULE Loot --------------------------------
(***************************************************************************)
(* The loot roll of the guest content (c_src/guest/content/loot.scm): an   *)
(* xorshift32 draw picks an item from a weighted table.  A 32-bit word is  *)
(* the set of the positions of its one bits.                               *)
(***************************************************************************)
EXTENDS Integers, Sequences, FiniteSets, FiniteSetsExt

CONSTANTS Seed,       \* seeds, below 2^31
          LootItem,   \* positive integers
          Weight,     \* weights of table entries
          MaxEntries  \* bound: entries of a table

\* A list of (item . weight) pairs.
Table == UNION {[1 .. n -> LootItem \X Weight] : n \in 0 .. MaxEntries}

VARIABLES table, seed, rolled

lootVars == <<table, seed, rolled>>

-----------------------------------------------------------------------------
Bits(n) == {i \in 0 .. 30 : (n \div 2^i) % 2 = 1}

u32(x) == x \cap (0 .. 31)

logxor(x, y) == (x \ y) \cup (y \ x)

ash(x, n) == {i + n : i \in x} \cap Nat

xorshift32(s) ==
    LET s1 == u32(logxor(s, u32(ash(s, 13))))
        s2 == u32(logxor(s1, ash(s1, -17)))
    IN  u32(logxor(s2, u32(ash(s2, 5))))

\* The word x modulo b.
Mod(x, b) ==
    LET pow[i \in 0 .. 31] == IF i = 0 THEN 1 % b ELSE (2 * pow[i - 1]) % b
    IN  FoldSet(LAMBDA i, acc : (acc + pow[i]) % b, 0, x)

RngRange(s, bound) == IF bound = 0 THEN 0 ELSE Mod(xorshift32(Bits(s)), bound)

\* Weight of the first i entries of t, the accumulator of pick.
WeightUpTo(t, i) == FoldSet(LAMBDA j, acc : acc + t[j][2], 0, 1 .. i)

TotalWeight(t) == WeightUpTo(t, Len(t))

\* Faulty pick: <= for <.
PickInclusive(t, r) ==
    LET hits == {i \in 1 .. Len(t) : r <= WeightUpTo(t, i)}
    IN  IF hits = {} THEN 0 ELSE t[Min(hits)][1]

Pick(t, r) ==
    LET hits == {i \in 1 .. Len(t) : r < WeightUpTo(t, i)}
    IN  IF hits = {} THEN 0 ELSE t[Min(hits)][1]

LootRoll(s, t) ==
    IF TotalWeight(t) = 0 THEN 0 ELSE Pick(t, RngRange(s, TotalWeight(t)))

\* The golden vector of guest_loot_roll.
ASSUME GoldenRoll == LootRoll(42, <<<<1, 10>>, <<2, 20>>, <<3, 5>>>>) = 3

-----------------------------------------------------------------------------
LootInit == table \in Table /\ seed \in Seed /\ rolled = -1

Roll ==
    /\ rolled = -1
    /\ rolled' = LootRoll(seed, table)
    /\ UNCHANGED <<table, seed>>

-----------------------------------------------------------------------------
\* Every item is picked for as many draws below the total weight as its
\* entries weigh together: the cumulative bounds of pick leave no draw out
\* and count none twice, zero weights and repeated items included.  So a roll
\* names an item that has weight; 0, no item, comes only from a table without
\* weight, never from running off its end.
RollIsFair ==
    /\ \A item \in LootItem :
          Cardinality({r \in 0 .. TotalWeight(table) - 1 : Pick(table, r) = item})
              = FoldSet(LAMBDA j, acc : acc + table[j][2], 0,
                        {j \in 1 .. Len(table) : table[j][1] = item})
    /\ rolled # -1 =>
          IF TotalWeight(table) = 0 THEN rolled = 0
          ELSE \E i \in 1 .. Len(table) : table[i][1] = rolled /\ table[i][2] > 0
=============================================================================
