----------------------- MODULE ThreadSafeQueueProofs -----------------------
(***************************************************************************)
(* Proofs about ThreadSafeQueue, for any number of threads and elements.   *)
(*                                                                         *)
(* The inductive invariant says what a cut list still is: the nodes from   *)
(* tail to head are distinct, a next pointer that is set leads to the node *)
(* behind, and one that is not set where a push is between its exchange    *)
(* and its store belongs to that push alone.                               *)
(***************************************************************************)
EXTENDS ThreadSafeQueue, SequenceTheorems, TLAPS

-----------------------------------------------------------------------------
(* Sequences without repetitions                                           *)

In(s, a) == \E i \in 1 .. Len(s) : s[i] = a
Follows(s, a, b) == \E i \in 1 .. Len(s) - 1 : s[i] = a /\ s[i + 1] = b
Ahead(s, a, b) == \E i, j \in 1 .. Len(s) : i < j /\ s[i] = a /\ s[j] = b
Distinct(s) == \A i, j \in 1 .. Len(s) : i # j => s[i] # s[j]

\* What is behind what after an element is appended.
LEMMA AppendFacts ==
    ASSUME NEW S, NEW s \in Seq(S), s # <<>>, NEW x \in S, Distinct(s), ~In(s, x)
    PROVE  /\ Append(s, x) \in Seq(S) /\ Append(s, x) # <<>>
           /\ Append(s, x)[1] = s[1] /\ Append(s, x)[Len(Append(s, x))] = x
           /\ Distinct(Append(s, x))
           /\ \A a : In(Append(s, x), a) <=> In(s, a) \/ a = x
           /\ \A a, b : Follows(Append(s, x), a, b) <=> Follows(s, a, b) \/ (a = s[Len(s)] /\ b = x)
           /\ \A a, b : Ahead(Append(s, x), a, b) <=> Ahead(s, a, b) \/ (In(s, a) /\ b = x)
<1> DEFINE u == Append(s, x)
<1>1. /\ u \in Seq(S) /\ Len(u) = Len(s) + 1 /\ Len(s) \in Nat /\ Len(s) >= 1
      /\ \A i \in 1 .. Len(s) : u[i] = s[i]
      /\ u[Len(s) + 1] = x
  BY AppendProperties, EmptySeq, LenProperties
<1> HIDE DEF u
<1>2. u # <<>> /\ u[1] = s[1] /\ u[Len(u)] = x
  BY <1>1
<1>3. Distinct(u)
  BY <1>1 DEF Distinct, In
<1>4. \A a : In(u, a) <=> In(s, a) \/ a = x
  BY <1>1 DEF In
<1>5. \A a, b : Follows(u, a, b) <=> Follows(s, a, b) \/ (a = s[Len(s)] /\ b = x)
  <2> TAKE a, b
  <2>1. ASSUME Follows(u, a, b) PROVE Follows(s, a, b) \/ (a = s[Len(s)] /\ b = x)
    BY <1>1, <2>1 DEF Follows
  <2>2. ASSUME Follows(s, a, b) PROVE Follows(u, a, b)
    BY <1>1, <2>2 DEF Follows
  <2>3. ASSUME a = s[Len(s)], b = x PROVE Follows(u, a, b)
    BY <1>1, <2>3 DEF Follows
  <2> QED BY <2>1, <2>2, <2>3
<1>6. \A a, b : Ahead(u, a, b) <=> Ahead(s, a, b) \/ (In(s, a) /\ b = x)
  <2> TAKE a, b
  <2>1. ASSUME Ahead(u, a, b) PROVE Ahead(s, a, b) \/ (In(s, a) /\ b = x)
    BY <1>1, <2>1 DEF Ahead, In
  <2>2. ASSUME Ahead(s, a, b) PROVE Ahead(u, a, b)
    BY <1>1, <2>2 DEF Ahead
  <2>3. ASSUME In(s, a), b = x PROVE Ahead(u, a, b)
    <3>1. PICK i \in 1 .. Len(s) : s[i] = a
      BY <2>3 DEF In
    <3>2. i \in 1 .. Len(u) /\ Len(s) + 1 \in 1 .. Len(u) /\ i < Len(s) + 1 /\ u[i] = a /\ u[Len(s) + 1] = b
      BY <1>1, <2>3, <3>1
    <3> QED BY <3>2 DEF Ahead
  <2> QED BY <2>1, <2>2, <2>3
<1> QED BY <1>1, <1>2, <1>3, <1>4, <1>5, <1>6 DEF u

\* What is behind what after the first element has left.
LEMMA TailFacts ==
    ASSUME NEW S, NEW s \in Seq(S), Len(s) >= 2, Distinct(s)
    PROVE  /\ Tail(s) \in Seq(S) /\ Tail(s) # <<>>
           /\ Tail(s)[1] = s[2] /\ Tail(s)[Len(Tail(s))] = s[Len(s)]
           /\ Distinct(Tail(s))
           /\ \A a : In(Tail(s), a) <=> In(s, a) /\ a # s[1]
           /\ \A a, b : Follows(Tail(s), a, b) <=> Follows(s, a, b) /\ a # s[1]
           /\ \A a, b : Ahead(Tail(s), a, b) => Ahead(s, a, b)
           /\ \A b : In(Tail(s), b) => Ahead(s, s[1], b)
<1> DEFINE u == Tail(s)
<1>1. /\ u \in Seq(S) /\ Len(u) = Len(s) - 1 /\ Len(s) \in Nat
      /\ \A i \in 1 .. Len(u) : u[i] = s[i + 1]
  <2>1. s # <<>> /\ Len(s) \in Nat
    BY EmptySeq, LenProperties
  <2> QED BY <2>1, HeadTailProperties
<1> HIDE DEF u
<1>2. u # <<>> /\ u[1] = s[2] /\ u[Len(u)] = s[Len(s)]
  BY <1>1
<1>3. Distinct(u)
  BY <1>1 DEF Distinct
<1>4. \A a : In(u, a) <=> In(s, a) /\ a # s[1]
  <2> TAKE a
  <2>1. ASSUME In(u, a) PROVE In(s, a) /\ a # s[1]
    BY <1>1, <2>1 DEF In, Distinct
  <2>2. ASSUME In(s, a), a # s[1] PROVE In(u, a)
    <3>1. PICK i \in 1 .. Len(s) : s[i] = a
      BY <2>2 DEF In
    <3>2. i - 1 \in 1 .. Len(u) /\ u[i - 1] = a
      BY <1>1, <2>2, <3>1
    <3> QED BY <3>2 DEF In
  <2> QED BY <2>1, <2>2
<1>5. \A a, b : Follows(u, a, b) <=> Follows(s, a, b) /\ a # s[1]
  <2> TAKE a, b
  <2>1. ASSUME Follows(u, a, b) PROVE Follows(s, a, b) /\ a # s[1]
    <3>1. PICK i \in 1 .. Len(u) - 1 : u[i] = a /\ u[i + 1] = b
      BY <2>1 DEF Follows
    <3>2. i + 1 \in 1 .. Len(s) - 1 /\ s[i + 1] = a /\ s[(i + 1) + 1] = b
      BY <1>1, <3>1
    <3>3. i + 1 \in 1 .. Len(s) /\ 1 \in 1 .. Len(s) /\ i + 1 # 1
      BY <1>1, <3>1
    <3>4. s[i + 1] # s[1]
      BY <3>3 DEF Distinct
    <3> QED BY <3>2, <3>4 DEF Follows
  <2>2. ASSUME Follows(s, a, b), a # s[1] PROVE Follows(u, a, b)
    <3>1. PICK i \in 1 .. Len(s) - 1 : s[i] = a /\ s[i + 1] = b
      BY <2>2 DEF Follows
    <3>2. i - 1 \in 1 .. Len(u) - 1 /\ u[i - 1] = a /\ u[(i - 1) + 1] = b
      BY <1>1, <2>2, <3>1
    <3> QED BY <3>2 DEF Follows
  <2> QED BY <2>1, <2>2
<1>6. \A a, b : Ahead(u, a, b) => Ahead(s, a, b)
  <2> SUFFICES ASSUME NEW a, NEW b, Ahead(u, a, b) PROVE Ahead(s, a, b)
    OBVIOUS
  <2>1. PICK i, j \in 1 .. Len(u) : i < j /\ u[i] = a /\ u[j] = b
    BY DEF Ahead
  <2>2. i + 1 \in 1 .. Len(s) /\ j + 1 \in 1 .. Len(s) /\ i + 1 < j + 1 /\ s[i + 1] = a /\ s[j + 1] = b
    BY <1>1, <2>1
  <2> QED BY <2>2 DEF Ahead
<1>7. \A b : In(u, b) => Ahead(s, s[1], b)
  <2> SUFFICES ASSUME NEW b, In(u, b) PROVE Ahead(s, s[1], b)
    OBVIOUS
  <2>1. PICK i \in 1 .. Len(u) : u[i] = b
    BY DEF In
  <2>2. 1 \in 1 .. Len(s) /\ i + 1 \in 1 .. Len(s) /\ 1 < i + 1 /\ s[i + 1] = b
    BY <1>1, <2>1
  <2> QED BY <2>2 DEF Ahead
<1> QED BY <1>1, <1>2, <1>3, <1>4, <1>5, <1>6, <1>7 DEF u
\* Where neighbours are in a sequence without repetitions.
LEMMA NeighbourFacts ==
    ASSUME NEW S, NEW s \in Seq(S), s # <<>>, Distinct(s)
    PROVE  /\ In(s, s[1]) /\ In(s, s[Len(s)])
           /\ \A a : In(s, a) => a \in S
           /\ \A a, b : Follows(s, a, b) => In(s, a) /\ In(s, b) /\ a # s[Len(s)]
           /\ \A a, b, c : Follows(s, a, b) /\ Follows(s, a, c) => b = c
           /\ \A a, b, c : Follows(s, a, c) /\ Follows(s, b, c) => a = b
           /\ s[1] # s[Len(s)] => Len(s) >= 2 /\ Follows(s, s[1], s[2])
           /\ s[1] = s[Len(s)] => \A a : In(s, a) => a = s[1]
           /\ \A b : Follows(s, s[1], b) => Len(s) > 1 /\ s[2] = b
<1>1. Len(s) \in Nat /\ Len(s) >= 1 /\ 1 \in 1 .. Len(s) /\ Len(s) \in 1 .. Len(s)
  BY EmptySeq, LenProperties
<1>2. In(s, s[1]) /\ In(s, s[Len(s)])
  BY <1>1 DEF In
<1>3. \A a : In(s, a) => a \in S
  BY ElementOfSeq DEF In
<1>4. ASSUME NEW a, NEW b, Follows(s, a, b)
      PROVE  In(s, a) /\ In(s, b) /\ a # s[Len(s)]
  <2>1. PICK i \in 1 .. Len(s) - 1 : s[i] = a /\ s[i + 1] = b
    BY <1>4 DEF Follows
  <2>2. i \in 1 .. Len(s) /\ i + 1 \in 1 .. Len(s) /\ i # Len(s)
    BY <1>1, <2>1
  <2>3. s[i] # s[Len(s)]
    BY <1>1, <2>2 DEF Distinct
  <2> QED BY <2>1, <2>2, <2>3 DEF In
<1>5. ASSUME NEW a, NEW b, NEW c, Follows(s, a, b), Follows(s, a, c)
      PROVE  b = c
  <2>1. PICK i \in 1 .. Len(s) - 1 : s[i] = a /\ s[i + 1] = b
    BY <1>5 DEF Follows
  <2>2. PICK j \in 1 .. Len(s) - 1 : s[j] = a /\ s[j + 1] = c
    BY <1>5 DEF Follows
  <2>3. i \in 1 .. Len(s) /\ j \in 1 .. Len(s)
    BY <1>1, <2>1, <2>2
  <2>4. i = j
    BY <2>1, <2>2, <2>3 DEF Distinct
  <2> QED BY <2>1, <2>2, <2>4
<1>6. ASSUME NEW a, NEW b, NEW c, Follows(s, a, c), Follows(s, b, c)
      PROVE  a = b
  <2>1. PICK i \in 1 .. Len(s) - 1 : s[i] = a /\ s[i + 1] = c
    BY <1>6 DEF Follows
  <2>2. PICK j \in 1 .. Len(s) - 1 : s[j] = b /\ s[j + 1] = c
    BY <1>6 DEF Follows
  <2>3. i + 1 \in 1 .. Len(s) /\ j + 1 \in 1 .. Len(s)
    BY <1>1, <2>1, <2>2
  <2>4. i + 1 = j + 1
    BY <2>1, <2>2, <2>3 DEF Distinct
  <2> QED BY <2>1, <2>2, <2>4
<1>7. ASSUME s[1] # s[Len(s)]
      PROVE  Len(s) >= 2 /\ Follows(s, s[1], s[2])
  BY <1>1, <1>7 DEF Follows
<1>8. ASSUME s[1] = s[Len(s)], NEW a, In(s, a)
      PROVE  a = s[1]
  <2>1. Len(s) = 1
    BY <1>1, <1>8 DEF Distinct
  <2> QED BY <1>8, <2>1 DEF In
<1>9. ASSUME NEW b, Follows(s, s[1], b)
      PROVE  Len(s) > 1 /\ s[2] = b
  <2>1. PICK i \in 1 .. Len(s) - 1 : s[i] = s[1] /\ s[i + 1] = b
    BY <1>9 DEF Follows
  <2>2. i \in 1 .. Len(s)
    BY <1>1, <2>1
  <2>3. i = 1
    BY <1>1, <2>1, <2>2 DEF Distinct
  <2> QED BY <1>1, <2>1, <2>3
<1> QED BY <1>2, <1>3, <1>4, <1>5, <1>6, <1>7, <1>8, <1>9

-----------------------------------------------------------------------------
(* The inductive invariant                                                 *)

\* From tail to head, every node once.
ChainShape ==
    /\ chain # <<>> /\ Distinct(chain)
    /\ chain[1] = tail /\ chain[Len(chain)] = head

\* The pointers that are set lead to the node behind; head's is not set, nor
\* that of an element that has not been pushed.
PointersLead ==
    /\ \A a, b \in Node : Follows(chain, a, b) /\ next[a] # Null => next[a] = b
    /\ next[head] = Null
    /\ \A n \in Item : ticket[n] = 0 => next[n] = Null

\* A push between its exchange and its store will close the list, and no other
\* push is at the same place.
PushesPending ==
    /\ \A t \in Linking : Follows(chain, prev[t], node[t]) /\ prev[t] \in Node /\ next[prev[t]] = Null
    /\ \A t, u \in Linking : t # u => prev[t] # prev[u]
    /\ cpc = "stublink" => Follows(chain, before, Stub)
    /\ cpc = "sleeplink" => Follows(chain, before, Sleeping)
    /\ cpc \in {"stublink", "sleeplink"} =>
          before \in Node /\ next[before] = Null /\ \A t \in Linking : prev[t] # before

\* Elements are numbered in the order in which they are in the list.
TicketsOrdered ==
    /\ last <= issued
    /\ \A n \in Item : ticket[n] <= issued /\ (In(chain, n) <=> ticket[n] > last)
    /\ \A a, b \in Item : Ahead(chain, a, b) => ticket[a] < ticket[b]

\* What the consumer knows of the two nodes of the queue, and of its local tail.
ConsumerKnows ==
    /\ In(chain, Sleeping) <=> sleepy \/ cpc = "sleeplink"
    /\ cpc \in {"sleep", "sleeplink"} => ~sleepy /\ tail = Stub
    /\ cpc \in {"next", "head", "stub", "stublink", "last"} => at = tail /\ at # Stub
    /\ cpc = "stub" => ~In(chain, Stub)
    /\ again => ~In(chain, Sleeping) /\ cpc \notin {"idle", "sleep", "sleeplink"}
    /\ cpc # "failed"
    /\ cpc = "idle" /\ result = Sleeping => tail = Stub /\ Follows(chain, Stub, Sleeping)

QueueInv ==
    /\ QueueTypeOK /\ ChainShape /\ PointersLead /\ PushesPending
    /\ TicketsOrdered /\ ConsumerKnows

-----------------------------------------------------------------------------
LEMMA QueueInvInit ==
    ASSUME QueueInit PROVE QueueInv
<1>1. <<Stub>> \in Seq(Node) /\ <<Stub>> # <<>> /\ Len(<<Stub>>) = 1 /\ <<Stub>>[1] = Stub
  BY DEF Node
<1>2. /\ Distinct(<<Stub>>)
      /\ \A a : In(<<Stub>>, a) <=> a = Stub
      /\ \A a, b : ~Follows(<<Stub>>, a, b) /\ ~Ahead(<<Stub>>, a, b)
  BY <1>1 DEF Distinct, In, Follows, Ahead
<1>3. QueueTypeOK
  BY <1>1 DEF QueueInit, QueueTypeOK, Node
<1>4. ChainShape
  BY <1>1, <1>2 DEF QueueInit, ChainShape
<1>5. PointersLead
  BY <1>2, NodeAssumption DEF QueueInit, PointersLead, Node
<1>6. PushesPending
  BY <1>2 DEF QueueInit, PushesPending, Linking
<1>7. TicketsOrdered
  BY <1>2, NodeAssumption DEF QueueInit, TicketsOrdered
<1>8. ConsumerKnows
  BY <1>2, NodeAssumption DEF QueueInit, ConsumerKnows, Node
<1> QED BY <1>3, <1>4, <1>5, <1>6, <1>7, <1>8 DEF QueueInv

LEMMA PushKeeps ==
    ASSUME QueueInv, NEW t \in Thread, NEW n \in Item, Push(t, n)
    PROVE  QueueInv'
<1> USE NodeAssumption
<1> USE DEF QueueInv
<1>1. n \in Node /\ Stub \in Node /\ Sleeping \in Node /\ n # Stub /\ n # Sleeping /\ n # Null
  BY DEF Node
<1>2. chain \in Seq(Node) /\ chain # <<>> /\ Distinct(chain) /\ ~In(chain, n)
  BY DEF QueueTypeOK, ChainShape, TicketsOrdered, Push
<1>3. /\ chain' \in Seq(Node) /\ chain' # <<>>
      /\ chain'[1] = chain[1] /\ chain'[Len(chain')] = n
      /\ Distinct(chain')
      /\ \A a : In(chain', a) <=> In(chain, a) \/ a = n
      /\ \A a, b : Follows(chain', a, b) <=> Follows(chain, a, b) \/ (a = head /\ b = n)
      /\ \A a, b : Ahead(chain', a, b) <=> Ahead(chain, a, b) \/ (In(chain, a) /\ b = n)
  <2>1. chain' = Append(chain, n) /\ head = chain[Len(chain)]
    BY DEF Push, ChainShape
  <2> QED BY <1>1, <1>2, <2>1, AppendFacts
<1>4. /\ \A a, b : Follows(chain, a, b) => In(chain, a) /\ In(chain, b) /\ a # head
      /\ In(chain, head)
  BY <1>2, NeighbourFacts, Zenon DEF ChainShape
<1>5. QueueTypeOK'
  BY <1>1, <1>3 DEF Push, QueueTypeOK, consumerVars
<1>6. ChainShape'
  BY <1>3 DEF Push, ChainShape, consumerVars
<1>7. PointersLead'
  BY <1>1, <1>2, <1>3, <1>4 DEF Push, PointersLead, QueueTypeOK, consumerVars
<1>8. PushesPending'
  BY <1>1, <1>2, <1>3, <1>4 DEF Push, PushesPending, PointersLead, Linking, QueueTypeOK, consumerVars
<1>9. TicketsOrdered'
  <2>1. /\ last' = last /\ issued' = issued + 1 /\ issued \in Nat /\ last \in Nat
        /\ ticket \in [Item -> Nat] /\ ticket' = [ticket EXCEPT ![n] = issued + 1]
        /\ \A m \in Item : ticket[m] \in Nat
    BY DEF Push, QueueTypeOK, consumerVars
  <2>2. last' <= issued'
    BY <2>1 DEF TicketsOrdered
  <2>3. ASSUME NEW m \in Item PROVE ticket'[m] <= issued' /\ (In(chain', m) <=> ticket'[m] > last')
    BY <1>2, <1>3, <2>1 DEF TicketsOrdered
  <2>4. ASSUME NEW a \in Item, NEW b \in Item, Ahead(chain', a, b) PROVE ticket'[a] < ticket'[b]
    <3>1. Ahead(chain, a, b) => a # n /\ b # n
      <4>1. Ahead(chain, a, b) => In(chain, a) /\ In(chain, b)
        BY <1>2 DEF Ahead, In
      <4> QED BY <1>2, <4>1
    <3>2. In(chain, a) => a # n
      BY <1>2
    <3> QED BY <1>3, <2>1, <2>4, <3>1, <3>2 DEF TicketsOrdered
  <2> QED BY <2>2, <2>3, <2>4 DEF TicketsOrdered
<1>10. ConsumerKnows'
  BY <1>1, <1>2, <1>3, <1>4 DEF Push, ConsumerKnows, QueueTypeOK, consumerVars
<1> QED BY <1>5, <1>6, <1>7, <1>8, <1>9, <1>10

LEMMA LinkKeeps ==
    ASSUME QueueInv, NEW t \in Thread, Link(t)
    PROVE  QueueInv'
<1> USE NodeAssumption
<1> USE DEF QueueInv
<1>1. /\ t \in Linking /\ node[t] \in Item /\ prev[t] \in Node
      /\ Follows(chain, prev[t], node[t]) /\ next[prev[t]] = Null
  BY DEF Link, PushesPending, Linking, QueueTypeOK
<1>2. /\ \A a, b : Follows(chain, a, b) => In(chain, a) /\ In(chain, b) /\ a # head
      /\ \A a, b, c : Follows(chain, a, b) /\ Follows(chain, a, c) => b = c
  <2>1. chain \in Seq(Node) /\ chain # <<>> /\ Distinct(chain) /\ head = chain[Len(chain)]
    BY DEF QueueTypeOK, ChainShape
  <2> QED BY <2>1, NeighbourFacts
<1>3. QueueTypeOK'
  BY <1>1 DEF Link, QueueTypeOK, consumerVars, Node
<1>4. ChainShape'
  BY DEF Link, ChainShape, consumerVars
<1>5. PointersLead'
  <2>1. \A n \in Item : ticket[n] = 0 => n # prev[t]
    BY <1>1, <1>2 DEF TicketsOrdered, QueueTypeOK
  <2> QED BY <1>1, <1>2, <2>1 DEF Link, PointersLead, QueueTypeOK, consumerVars, Node
<1>6. PushesPending'
  BY <1>1 DEF Link, PushesPending, Linking, QueueTypeOK, consumerVars
<1>7. TicketsOrdered'
  BY DEF Link, TicketsOrdered, consumerVars
<1>8. ConsumerKnows'
  BY DEF Link, ConsumerKnows, consumerVars
<1> QED BY <1>3, <1>4, <1>5, <1>6, <1>7, <1>8

LEMMA WokenKeeps ==
    ASSUME QueueInv, NEW t \in Thread, Woken(t)
    PROVE  QueueInv'
BY DEF QueueInv, Woken, QueueTypeOK, ChainShape, PointersLead, PushesPending, Linking,
       TicketsOrdered, ConsumerKnows, consumerVars

\* The consumer's own exchange, of the stub or of Sleeping.
LEMMA ConsumerPushKeeps ==
    ASSUME QueueInv, NEW n \in {Stub, Sleeping},
           NEW here, NEW then, ConsumerPush(here, n, then),
           \/ here = "stub" /\ n = Stub /\ then = "stublink"
           \/ here = "sleep" /\ n = Sleeping /\ then = "sleeplink"
    PROVE  QueueInv'
<1> USE NodeAssumption
<1> USE DEF QueueInv
<1>1. n \in Node /\ n \notin Item /\ n # Null
  BY DEF Node
<1>2. chain \in Seq(Node) /\ chain # <<>> /\ Distinct(chain) /\ ~In(chain, n)
  BY DEF QueueTypeOK, ChainShape, ConsumerKnows, ConsumerPush
<1>3. /\ chain' \in Seq(Node) /\ chain' # <<>>
      /\ chain'[1] = chain[1] /\ chain'[Len(chain')] = n
      /\ Distinct(chain')
      /\ \A a : In(chain', a) <=> In(chain, a) \/ a = n
      /\ \A a, b : Follows(chain', a, b) <=> Follows(chain, a, b) \/ (a = head /\ b = n)
      /\ \A a, b : Ahead(chain', a, b) <=> Ahead(chain, a, b) \/ (In(chain, a) /\ b = n)
  <2>1. chain' = Append(chain, n) /\ head = chain[Len(chain)]
    BY DEF ConsumerPush, ChainShape
  <2> QED BY <1>1, <1>2, <2>1, AppendFacts
<1>4. /\ \A a, b : Follows(chain, a, b) => In(chain, a) /\ In(chain, b) /\ a # head
      /\ In(chain, head)
  <2>1. head = chain[Len(chain)]
    BY DEF ChainShape
  <2> QED BY <1>2, <2>1, NeighbourFacts
<1>5. QueueTypeOK'
  BY <1>1, <1>3 DEF ConsumerPush, QueueTypeOK, producerVars
<1>6. ChainShape'
  BY <1>3 DEF ConsumerPush, ChainShape
<1>7. PointersLead'
  BY <1>1, <1>2, <1>3, <1>4 DEF ConsumerPush, PointersLead, QueueTypeOK, producerVars, Node
<1>8. PushesPending'
  BY <1>1, <1>2, <1>3, <1>4 DEF ConsumerPush, PushesPending, PointersLead, Linking, QueueTypeOK, producerVars
<1>9. TicketsOrdered'
  BY <1>1, <1>3 DEF ConsumerPush, TicketsOrdered, producerVars
<1>10. ConsumerKnows'
  BY <1>1, <1>3 DEF ConsumerPush, ConsumerKnows
<1> QED BY <1>5, <1>6, <1>7, <1>8, <1>9, <1>10

\* The consumer's own store.
LEMMA ConsumerLinkKeeps ==
    ASSUME QueueInv, StubLink \/ SleepLink
    PROVE  QueueInv'
<1> USE NodeAssumption
<1> USE DEF QueueInv
<1> DEFINE n == IF cpc = "stublink" THEN Stub ELSE Sleeping
<1>1. /\ n \in Node /\ before \in Node /\ Follows(chain, before, n) /\ next[before] = Null
      /\ \A t \in Linking : prev[t] # before
      /\ next' = [next EXCEPT ![before] = n]
  BY DEF StubLink, SleepLink, PushesPending, Node
<1>2. /\ \A a, b : Follows(chain, a, b) => In(chain, a) /\ In(chain, b) /\ a # head
      /\ \A a, b, c : Follows(chain, a, b) /\ Follows(chain, a, c) => b = c
  <2>1. chain \in Seq(Node) /\ chain # <<>> /\ Distinct(chain) /\ head = chain[Len(chain)]
    BY DEF QueueTypeOK, ChainShape
  <2> QED BY <2>1, NeighbourFacts
<1>3. QueueTypeOK'
  BY <1>1 DEF StubLink, SleepLink, QueueTypeOK, producerVars, Node
<1>4. ChainShape'
  BY DEF StubLink, SleepLink, ChainShape
<1>5. PointersLead'
  <2>1. \A m \in Item : ticket[m] = 0 => m # before
    BY <1>1, <1>2 DEF TicketsOrdered, QueueTypeOK
  <2>2. UNCHANGED <<chain, head, ticket>>
    BY DEF StubLink, SleepLink, producerVars
  <2> HIDE DEF n
  <2> QED BY <1>1, <1>2, <2>1, <2>2 DEF PointersLead, QueueTypeOK, Node
<1>6. PushesPending'
  <2>1. UNCHANGED <<chain, node, prev>> /\ cpc' \in {"last", "idle"}
    BY DEF StubLink, SleepLink, producerVars
  <2> HIDE DEF n
  <2> QED BY <1>1, <2>1 DEF PushesPending, Linking, QueueTypeOK
<1>7. TicketsOrdered'
  BY DEF StubLink, SleepLink, TicketsOrdered, producerVars
<1>8. ConsumerKnows'
  BY <1>1, <1>2 DEF StubLink, SleepLink, ConsumerKnows
<1> QED BY <1>3, <1>4, <1>5, <1>6, <1>7, <1>8

LEMMA CallKeeps ==
    ASSUME QueueInv, Pop \/ CanSleep
    PROVE  QueueInv'
<1> USE NodeAssumption
<1> USE DEF QueueInv
<1>1. UNCHANGED <<head, tail, next, sleepy, again, last, at, before, chain, producerVars>>
  BY DEF Pop, CanSleep
<1>2. cpc = "idle" /\ cpc' \in {"pop", "sleep", "idle"}
  BY DEF Pop, CanSleep
<1>3. QueueTypeOK'
  BY <1>1 DEF Pop, CanSleep, QueueTypeOK, producerVars, Node
<1>4. ChainShape' /\ PointersLead' /\ TicketsOrdered'
  BY <1>1 DEF ChainShape, PointersLead, TicketsOrdered, producerVars
<1>5. PushesPending'
  BY <1>1, <1>2 DEF PushesPending, Linking, producerVars
<1>6. ConsumerKnows'
  BY <1>1, <1>2 DEF Pop, CanSleep, MaySleep, ConsumerKnows, Node
<1> QED BY <1>3, <1>4, <1>5, <1>6

\* pop() without an answer.
LEMMA EmptyKeeps ==
    ASSUME QueueInv, cpc \in {"pop", "head", "last"}, Return(Null),
           UNCHANGED <<tail, chain, head, next, before, producerVars>>
    PROVE  QueueInv'
<1> USE NodeAssumption
<1> USE DEF QueueInv
<1>1. /\ at' = Null /\ cpc' = "idle" /\ again' = FALSE /\ result' = Null
      /\ UNCHANGED <<last, sleepy>>
  BY DEF Return, Node
<1>2. QueueTypeOK'
  BY <1>1 DEF QueueTypeOK, producerVars
<1>3. ChainShape' /\ PointersLead' /\ TicketsOrdered'
  BY <1>1 DEF ChainShape, PointersLead, TicketsOrdered, producerVars
<1>4. PushesPending'
  BY <1>1 DEF PushesPending, Linking, producerVars
<1>5. ConsumerKnows'
  BY <1>1 DEF ConsumerKnows, Node
<1> QED BY <1>2, <1>3, <1>4, <1>5

\* What is left when tail moves on.
LEMMA LeaveFacts ==
    ASSUME QueueInv, next[tail] # Null, Leave(next[tail])
    PROVE  /\ chain' \in Seq(Node) /\ chain' # <<>> /\ Distinct(chain')
           /\ chain'[1] = tail' /\ chain'[Len(chain')] = head /\ tail' \in Node
           /\ In(chain, tail)
           /\ \A a : In(chain', a) <=> In(chain, a) /\ a # tail
           /\ \A a, b : Follows(chain', a, b) <=> Follows(chain, a, b) /\ a # tail
           /\ \A a, b : Ahead(chain', a, b) => Ahead(chain, a, b)
           /\ \A b : In(chain', b) => Ahead(chain, tail, b)
<1>1. /\ chain \in Seq(Node) /\ chain # <<>> /\ Distinct(chain)
      /\ tail = chain[1] /\ head = chain[Len(chain)] /\ tail # head
      /\ tail \in Node /\ next[tail] \in Node
  BY DEF QueueInv, QueueTypeOK, ChainShape, PointersLead
<1>2. Len(chain) >= 2 /\ Follows(chain, tail, chain[2]) /\ In(chain, tail)
  BY <1>1, NeighbourFacts
<1>3. chain[2] \in Node
  BY <1>1, <1>2, ElementOfSeq
<1>4. next[tail] = chain[2]
  BY <1>1, <1>2, <1>3 DEF QueueInv, PointersLead
<1>5. chain' = Tail(chain) /\ tail' = chain[2]
  BY <1>4 DEF Leave
<1> QED BY <1>1, <1>2, <1>3, <1>5, TailFacts

\* The first node leaves the list: what does not depend on which one it is.
LEMMA LeaveKeeps ==
    ASSUME QueueInv, next[tail] # Null, Leave(next[tail]), cpc \in {"pop", "next", "last"},
           cpc' \in {"pop", "next", "idle"}, UNCHANGED <<head, next, before, producerVars>>
    PROVE  ChainShape' /\ PointersLead' /\ PushesPending'
<1> USE DEF QueueInv
<1>1. ChainShape'
  BY LeaveFacts DEF ChainShape
<1>2. PointersLead'
  BY LeaveFacts DEF PointersLead, producerVars
<1>3. PushesPending'
  BY LeaveFacts DEF PushesPending, Linking, producerVars
<1> QED BY <1>1, <1>2, <1>3

\* pop() with an answer, or past the node Sleeping.
LEMMA TakeKeeps ==
    ASSUME QueueInv, cpc \in {"pop", "next", "last"}, tail # Stub,
           next[tail] # Null, Leave(next[tail]), Return(tail),
           UNCHANGED <<head, next, before, producerVars>>
    PROVE  QueueInv'
<1> USE NodeAssumption
<1> USE DEF QueueInv
<1>1. /\ chain' \in Seq(Node) /\ tail' \in Node /\ In(chain, tail)
      /\ \A a : In(chain', a) <=> In(chain, a) /\ a # tail
      /\ \A a, b : Ahead(chain', a, b) => Ahead(chain, a, b)
      /\ \A b : In(chain', b) => Ahead(chain, tail, b)
  BY LeaveFacts
<1>2. CASE tail = Sleeping
  <2>1. /\ sleepy' = FALSE /\ again' = TRUE /\ cpc' = "pop" /\ at' = Null
        /\ UNCHANGED <<result, last>>
    BY <1>1, <1>2 DEF Return, ConsumerKnows, QueueTypeOK, Node
  <2>2. QueueTypeOK'
    BY <1>1, <2>1 DEF QueueTypeOK, producerVars
  <2>3. ChainShape' /\ PointersLead' /\ PushesPending'
    BY <2>1, LeaveKeeps
  <2>4. TicketsOrdered'
    BY <1>1, <1>2, <2>1 DEF TicketsOrdered, producerVars
  <2>5. ConsumerKnows'
    BY <1>1, <1>2, <2>1 DEF ConsumerKnows
  <2> QED BY <2>2, <2>3, <2>4, <2>5
<1>3. CASE tail \in Item
  <2>1. /\ again' = FALSE /\ cpc' = "idle" /\ at' = Null /\ result' = tail
        /\ last' = ticket[tail] /\ UNCHANGED sleepy
    BY <1>1, <1>3 DEF Return, Node
  <2>2. QueueTypeOK'
    BY <1>1, <1>3, <2>1 DEF QueueTypeOK, producerVars, Node
  <2>3. ChainShape' /\ PointersLead' /\ PushesPending'
    BY <2>1, LeaveKeeps
  <2>4. TicketsOrdered'
    <3>1. /\ ticket' = ticket /\ issued' = issued /\ last \in Nat /\ issued \in Nat
          /\ \A n \in Item : ticket[n] \in Nat
      BY DEF QueueTypeOK, producerVars
    <3>2. ticket[tail] > last /\ ticket[tail] <= issued
      BY <1>1, <1>3 DEF TicketsOrdered
    <3>3. ASSUME NEW n \in Item PROVE In(chain', n) <=> ticket[n] > ticket[tail]
      BY <1>1, <1>3, <3>1, <3>2 DEF TicketsOrdered
    <3> QED BY <1>1, <2>1, <3>1, <3>2, <3>3 DEF TicketsOrdered
  <2>5. ConsumerKnows'
    BY <1>1, <1>3, <2>1 DEF ConsumerKnows
  <2> QED BY <2>2, <2>3, <2>4, <2>5
<1> QED BY <1>2, <1>3 DEF QueueTypeOK, Node

LEMMA LoadNextKeeps ==
    ASSUME QueueInv, LoadNext
    PROVE  QueueInv'
<1> USE NodeAssumption
<1> USE DEF QueueInv
<1>1. cpc = "pop" /\ UNCHANGED <<head, next, before, producerVars>>
  BY DEF LoadNext
<1>2. CASE tail = Stub /\ next[tail] = Null
  BY <1>1, <1>2, EmptyKeeps DEF LoadNext
<1>3. CASE tail = Stub /\ next[tail] # Null
  <2>1. /\ Leave(next[tail]) /\ at' = next[tail] /\ cpc' = "next"
        /\ UNCHANGED <<sleepy, again, result, last>>
    BY <1>3 DEF LoadNext
  <2>2. /\ chain' \in Seq(Node) /\ chain' # <<>> /\ Distinct(chain') /\ chain'[1] = tail' /\ tail' \in Node
        /\ \A a : In(chain', a) <=> In(chain, a) /\ a # tail
        /\ \A a, b : Ahead(chain', a, b) => Ahead(chain, a, b)
    BY <1>3, <2>1, LeaveFacts
  <2>3. tail' = next[tail] /\ tail' # Stub
    <3>1. In(chain', chain'[1])
      BY <2>2, NeighbourFacts
    <3> QED BY <1>3, <2>1, <2>2, <3>1 DEF Leave
  <2>4. QueueTypeOK'
    BY <1>1, <2>1, <2>2, <2>3 DEF QueueTypeOK, producerVars
  <2>5. ChainShape' /\ PointersLead' /\ PushesPending'
    BY <1>1, <1>3, <2>1, LeaveKeeps
  <2>6. TicketsOrdered'
    BY <1>1, <1>3, <2>1, <2>2 DEF TicketsOrdered, producerVars
  <2>7. ConsumerKnows'
    BY <1>1, <1>3, <2>1, <2>2, <2>3 DEF ConsumerKnows
  <2> QED BY <2>4, <2>5, <2>6, <2>7
<1>4. CASE tail # Stub /\ next[tail] # Null
  BY <1>1, <1>4, TakeKeeps DEF LoadNext
<1>5. CASE tail # Stub /\ next[tail] = Null
  <2>1. at' = tail /\ cpc' = "head" /\ UNCHANGED <<tail, chain, sleepy, again, result, last>>
    BY <1>5 DEF LoadNext
  <2>2. QueueTypeOK'
    BY <1>1, <2>1 DEF QueueTypeOK, producerVars
  <2>3. ChainShape' /\ PointersLead' /\ TicketsOrdered'
    BY <1>1, <2>1 DEF ChainShape, PointersLead, TicketsOrdered, producerVars
  <2>4. PushesPending'
    BY <1>1, <2>1 DEF PushesPending, Linking, producerVars
  <2>5. ConsumerKnows'
    BY <1>1, <1>5, <2>1 DEF ConsumerKnows
  <2> QED BY <2>2, <2>3, <2>4, <2>5
<1> QED BY <1>2, <1>3, <1>4, <1>5

LEMMA LoadLaterKeeps ==
    ASSUME QueueInv, LoadAfterStub \/ LoadHead \/ LoadLast
    PROVE  QueueInv'
<1> USE NodeAssumption
<1> USE DEF QueueInv
<1>1. /\ cpc \in {"next", "head", "last"} /\ at = tail /\ tail # Stub
      /\ UNCHANGED <<head, next, before, producerVars>>
  BY DEF LoadAfterStub, LoadHead, LoadLast, ConsumerKnows
<1>2. CASE cpc \in {"next", "last"} /\ next[at] # Null
  BY <1>1, <1>2, TakeKeeps DEF LoadAfterStub, LoadHead, LoadLast
<1>3. CASE (cpc = "last" /\ next[at] = Null) \/ (cpc = "head" /\ at # head)
  BY <1>1, <1>3, EmptyKeeps DEF LoadAfterStub, LoadHead, LoadLast
<1>4. CASE (cpc = "next" /\ next[at] = Null) \/ (cpc = "head" /\ at = head)
  <2>1. /\ UNCHANGED <<tail, chain, at, sleepy, again, result, last>>
        /\ \/ cpc = "next" /\ cpc' = "head"
           \/ cpc = "head" /\ cpc' = "stub" /\ tail = head
    BY <1>1, <1>4 DEF LoadAfterStub, LoadHead, LoadLast
  <2>2. tail = head => ~In(chain, Stub)
    <3>1. chain \in Seq(Node) /\ chain # <<>> /\ Distinct(chain) /\ chain[1] = tail /\ chain[Len(chain)] = head
      BY DEF QueueTypeOK, ChainShape
    <3> QED BY <1>1, <3>1, NeighbourFacts
  <2>3. QueueTypeOK'
    BY <1>1, <2>1 DEF QueueTypeOK, producerVars
  <2>4. ChainShape' /\ PointersLead' /\ TicketsOrdered'
    BY <1>1, <2>1 DEF ChainShape, PointersLead, TicketsOrdered, producerVars
  <2>5. PushesPending'
    BY <1>1, <2>1 DEF PushesPending, Linking, producerVars
  <2>6. ConsumerKnows'
    BY <1>1, <2>1, <2>2 DEF ConsumerKnows
  <2> QED BY <2>3, <2>4, <2>5, <2>6
<1> QED BY <1>1, <1>2, <1>3, <1>4

LEMMA QueueInvStep ==
    ASSUME QueueInv, [QueueNext]_queueVars
    PROVE  QueueInv'
<1>1. CASE UNCHANGED queueVars
  BY <1>1 DEF queueVars, QueueInv, QueueTypeOK, ChainShape, PointersLead, PushesPending, Linking,
              TicketsOrdered, ConsumerKnows
<1>2. ASSUME NEW t \in Thread, Producer(t) PROVE QueueInv'
  BY <1>2, PushKeeps, LinkKeeps, WokenKeeps DEF Producer
<1>3. CASE Pop \/ CanSleep
  BY <1>3, CallKeeps
<1>4. CASE Access
  <2>1. CASE LoadNext
    BY <2>1, LoadNextKeeps
  <2>2. CASE LoadAfterStub \/ LoadHead \/ LoadLast
    BY <2>2, LoadLaterKeeps
  <2>3. CASE ConsumerPush("stub", Stub, "stublink") \/ ConsumerPush("sleep", Sleeping, "sleeplink")
    BY <2>3, ConsumerPushKeeps
  <2>4. CASE StubLink \/ SleepLink
    BY <2>4, ConsumerLinkKeeps
  <2> QED BY <1>4, <2>1, <2>2, <2>3, <2>4 DEF Access
<1> QED BY <1>1, <1>2, <1>3, <1>4 DEF QueueNext

-----------------------------------------------------------------------------
(* What it is good for                                                     *)

LEMMA QueueInvImplies ==
    ASSUME QueueInv
    PROVE  AssertsHold /\ NoUseAfterFree /\ NothingLost /\ SleepIsSafe
<1> USE NodeAssumption
<1> USE DEF QueueInv
<1>1. chain \in Seq(Node) /\ chain # <<>> /\ Distinct(chain) /\ tail = chain[1] /\ head = chain[Len(chain)]
  BY DEF QueueTypeOK, ChainShape
<1>2. /\ In(chain, tail) /\ In(chain, head)
      /\ \A a, b : Follows(chain, a, b) => In(chain, a)
      /\ \A b : Follows(chain, tail, b) => Len(chain) > 1 /\ chain[2] = b
  BY <1>1, NeighbourFacts
<1>3. AssertsHold
  BY DEF AssertsHold, ConsumerKnows
<1>4. NoUseAfterFree
  <2>1. \A n : In(chain, n) => n \notin Freed
    BY DEF Freed, TicketsOrdered, QueueTypeOK
  <2>2. \A t \in Linking : prev[t] \notin Freed
    BY <1>2, <2>1 DEF PushesPending
  <2>3. cpc \in {"next", "head", "stub", "stublink", "last"} => at \notin Freed
    BY <1>2, <2>1 DEF ConsumerKnows
  <2>4. cpc \in {"stublink", "sleeplink"} => before \notin Freed
    BY <1>2, <2>1 DEF PushesPending
  <2> QED BY <1>2, <2>1, <2>2, <2>3, <2>4 DEF NoUseAfterFree
<1>5. NothingLost
  <2>1. \A n \in Item : n \in InList <=> ticket[n] > last
    BY DEF InList, In, TicketsOrdered
  <2>2. ASSUME NEW i \in 1 .. Len(chain), NEW j \in 1 .. Len(chain), i < j
        PROVE  /\ chain[i] # chain[j]
               /\ chain[i] \in Item /\ chain[j] \in Item => ticket[chain[i]] < ticket[chain[j]]
    <3>1. i # j
      BY <1>1, <2>2, LenProperties
    <3>2. Ahead(chain, chain[i], chain[j])
      BY <2>2 DEF Ahead
    <3> QED BY <1>1, <3>1, <3>2 DEF Distinct, TicketsOrdered
  <2> QED BY <2>1, <2>2 DEF NothingLost
<1>6. SleepIsSafe
  BY <1>1, <1>2 DEF SleepIsSafe, ConsumerKnows
<1> QED BY <1>3, <1>4, <1>5, <1>6

\* The queue keeps its promises to any callers: pop meets neither assertion and
\* frees nothing that is still used, no element is lost or reordered, and
\* canSleep returns true only of an empty queue.
THEOREM QueueIsSafe == QueueSpec => [](AssertsHold /\ NoUseAfterFree /\ NothingLost /\ SleepIsSafe)
<1>1. QueueInit => QueueInv
  BY QueueInvInit
<1>2. QueueInv /\ [QueueNext]_queueVars => QueueInv'
  BY QueueInvStep
<1>3. QueueInv => AssertsHold /\ NoUseAfterFree /\ NothingLost /\ SleepIsSafe
  BY QueueInvImplies
<1> QED BY <1>1, <1>2, <1>3, PTL DEF QueueSpec
=============================================================================
