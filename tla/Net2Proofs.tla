----------------------------- MODULE Net2Proofs -----------------------------
(***************************************************************************)
(* Proofs about Net2, for any number of threads, tasks and pushes, on top  *)
(* of those about its queue.                                               *)
(***************************************************************************)
EXTENDS Net2, ThreadSafeQueueProofs

Popping == {"pop", "next", "head", "stub", "stublink", "last"}
Draining == {"drain", "yield", "local"}

\* Which calls of the queue are made where in the loop, and where an answer is
\* still to be used.
Phases ==
    /\ cpc \in Popping => npc \in Draining
    /\ cpc \in {"sleep", "sleeplink"} => npc = "cansleep"
    /\ result \in Item => cpc = "idle" /\ npc \in Draining
    /\ result = Sleeping => npc \in {"cansleep", "asleep", "react"}
    /\ result # Stub
    /\ npc = "asleep" => cpc = "idle" /\ result = Sleeping
    /\ npc = "local" => callee \in Local /\ stamp[callee] = 0

\* A task is in one place only, and an element that is in the list in none.
Places ==
    /\ timers \subseteq Local
    /\ ready \subseteq Local \union Freed /\ ran \subseteq Local \union Freed
    /\ ready \intersect timers = {} /\ ran \intersect ready = {} /\ ran \intersect timers = {}
    /\ \A k \in Local : k \in ready \union timers \union ran => stamp[k] > 0
    /\ result \in Item => result \in Freed \ (ready \union ran) /\ ticket[result] = last

\* Popped elements are numbered in the order of their tickets, and none of them
\* gets lost.
Numbered ==
    /\ \A k \in Task : stamp[k] <= tasksIssued
    /\ ~stopped => Freed \subseteq ready \union ran \union {result}
    /\ \A m, n \in Freed : m # result /\ n # result /\ ticket[m] < ticket[n] => stamp[m] < stamp[n]

\* As soon as Sleeping is in the list, whoever pushes behind it will wake the
\* loop.
Wakeups ==
    /\ npc \in {"cansleep", "asleep"}
    /\ cpc = "sleeplink" \/ (cpc = "idle" /\ result = Sleeping)
    => \/ head = Sleeping \/ posted > 0 \/ mustWake # {}
       \/ \E t \in Linking : prev[t] = Sleeping

LoopInv == QueueInv /\ TypeOK /\ Phases /\ Places /\ Numbered /\ Wakeups

-----------------------------------------------------------------------------
(* What the loop sees of a step of the queue                               *)

\* Every step of the loop is one of its queue, or none.
LEMMA IsQueueStep ==
    ASSUME [Next]_vars PROVE [QueueNext]_queueVars
BY DEF Next, Threads, Main, Awake, Timeout, OnMainThread, AddReadyThreadSafe, FinishPush, WakeReactor,
       TimerDue, Exit, Top, Sleep, React, QueueAccess, TakeReady, Drained, NoTask, RunTask, IssueReady,
       IssueTimer, IssueOnMainThread, EndTask, QueueNext, Producer, vars

LEMMA PopEffect ==
    ASSUME Pop
    PROVE  /\ cpc = "idle" /\ cpc' = "pop" /\ result' = Null
           /\ Freed' = Freed /\ UNCHANGED <<last, ticket>>
BY DEF Pop, Freed, producerVars

LEMMA PushEffect ==
    ASSUME QueueInv, NEW t \in Thread, NEW n \in Item, Push(t, n)
    PROVE  /\ Freed' = Freed /\ \A m \in Freed : ticket'[m] = ticket[m]
           /\ UNCHANGED <<last, cpc, result>>
<1>1. UNCHANGED <<last, cpc, result>>
  BY DEF Push, consumerVars
<1>2. /\ ticket' = [ticket EXCEPT ![n] = issued + 1] /\ ticket[n] = 0
      /\ last <= issued /\ last \in Nat /\ issued \in Nat /\ ticket \in [Item -> Nat]
  BY DEF Push, QueueInv, TicketsOrdered, QueueTypeOK
<1>3. \A m \in Item : m \in Freed' <=> m \in Freed
  BY <1>1, <1>2 DEF Freed
<1> QED BY <1>1, <1>2, <1>3 DEF Freed

\* The element at the head of the list is the next in the order of tickets.
LEMMA OldestFirst ==
    ASSUME QueueInv, tail \in Item
    PROVE  /\ ticket[tail] > last
           /\ \A n \in Item : ticket[n] > last /\ n # tail => ticket[n] > ticket[tail]
<1>1. chain \in Seq(Node) /\ chain # <<>> /\ tail = chain[1] /\ Distinct(chain)
  BY DEF QueueInv, QueueTypeOK, ChainShape
<1>2. In(chain, tail)
  BY <1>1, NeighbourFacts
<1>3. ASSUME NEW n, In(chain, n), n # tail PROVE Ahead(chain, tail, n)
  <2>1. PICK i \in 1 .. Len(chain) : chain[i] = n
    BY <1>3 DEF In
  <2>2. 1 \in 1 .. Len(chain) /\ 1 < i
    BY <1>1, <1>3, <2>1, LenProperties
  <2> QED BY <1>1, <2>1, <2>2 DEF Ahead
<1> QED BY <1>2, <1>3 DEF QueueInv, TicketsOrdered, QueueTypeOK

\* An access of pop() answers nothing yet, that there is nothing, or the next
\* element.
LEMMA PoppingEffect ==
    ASSUME QueueInv, Access, cpc \in Popping
    PROVE  \/ last' = last /\ result' = result /\ cpc' \in Popping
           \/ last' = last /\ result' = Null /\ cpc' = "idle"
           \/ tail \in Item /\ result' = tail /\ cpc' = "idle" /\ last' = ticket[tail]
<1> USE NodeAssumption
<1>1. /\ QueueInv' /\ cpc' # "failed"
  BY QueueInvStep DEF QueueNext, QueueInv, ConsumerKnows
<1>2. /\ tail \in Node
      /\ cpc \in {"next", "head", "stub", "stublink", "last"} => at = tail
  BY DEF QueueInv, QueueTypeOK, ConsumerKnows
<1>3. ASSUME NEW n \in Node \union {Null}, Return(n)
      PROVE  \/ last' = last /\ result' = result /\ cpc' = "pop"
             \/ n = Null /\ last' = last /\ result' = Null /\ cpc' = "idle"
             \/ n \in Item /\ result' = n /\ cpc' = "idle" /\ last' = ticket[n]
  BY <1>1, <1>3 DEF Return, Node
<1>4. CASE LoadNext
  BY <1>2, <1>3, <1>4 DEF LoadNext, Popping, Node
<1>5. CASE LoadAfterStub \/ LoadLast
  BY <1>2, <1>3, <1>5 DEF LoadAfterStub, LoadLast, Popping, Node
<1>6. CASE LoadHead
  BY <1>2, <1>3, <1>6 DEF LoadHead, Popping, Node
<1>7. CASE ConsumerPush("stub", Stub, "stublink") \/ StubLink
  BY <1>7 DEF ConsumerPush, StubLink, Popping
<1> QED BY <1>4, <1>5, <1>6, <1>7 DEF Access, Popping, ConsumerPush, SleepLink

LEMMA SleepingEffect ==
    ASSUME Access, cpc \notin Popping
    PROVE  /\ last' = last
           /\ \/ cpc = "sleep" /\ cpc' = "sleeplink" /\ result' = result /\ head' = Sleeping
              \/ cpc = "sleeplink" /\ cpc' = "idle" /\ result' \in {Sleeping, Null} /\ head' = head
BY DEF Access, Popping, LoadNext, LoadAfterStub, LoadHead, LoadLast, StubLink, ConsumerPush, SleepLink

LEMMA AccessEffect ==
    ASSUME Access
    PROVE  UNCHANGED producerVars
BY DEF Access, LoadNext, LoadAfterStub, LoadHead, LoadLast, StubLink, ConsumerPush, SleepLink

-----------------------------------------------------------------------------
(* The inductive invariant                                                 *)

LEMMA LoopInvInit ==
    ASSUME Init PROVE LoopInv
<1> USE NodeAssumption, TaskAssumption
<1>1. QueueInv
  BY QueueInvInit DEF Init
<1>2. TypeOK
  BY <1>1 DEF Init, TypeOK, QueueInv
<1>3. Freed = {}
  BY DEF Init, QueueInit, Freed
<1>4. Phases /\ Wakeups
  BY DEF Init, QueueInit, Phases, Wakeups, Popping, Node
<1>5. Places /\ Numbered
  BY <1>3 DEF Init, QueueInit, Places, Numbered, Node
<1> QED BY <1>1, <1>2, <1>4, <1>5 DEF LoopInv

\* No task moves and no element is popped.
LEMMA StoreKept ==
    ASSUME Places, Numbered,
           Freed' = Freed, \A m \in Freed : ticket'[m] = ticket[m],
           UNCHANGED <<last, ready, timers, ran, stamp, tasksIssued, stopped>>,
           result' = result \/ (result \notin Item /\ result' \notin Item)
    PROVE  Places' /\ Numbered'
<1>1. \A m \in Freed : m \in Item
  BY DEF Freed
<1>2. Places'
  BY DEF Places
<1>3. Numbered'
  BY <1>1 DEF Numbered
<1> QED BY <1>2, <1>3

\* The steps that leave the queue alone and move no task.
LEMMA ControlKeeps ==
    ASSUME LoopInv,
           \/ \E t \in Thread : OnMainThread(t)
           \/ TimerDue \/ Exit \/ Sleep \/ Awake \/ Timeout \/ NoTask
           \/ UNCHANGED vars
    PROVE  TypeOK' /\ Phases' /\ Places' /\ Numbered' /\ Wakeups'
<1> USE DEF LoopInv
<1> USE NodeAssumption
<1>1. UNCHANGED <<queueVars, ready, timers, stamp, tasksIssued, callee, ran, stopped>>
  BY DEF OnMainThread, TimerDue, Exit, Sleep, Awake, Timeout, NoTask, vars, loopVars
<1>2. UNCHANGED <<head, result, cpc, last, ticket, node, prev, mustWake>>
  BY <1>1 DEF queueVars
<1>3. QueueTypeOK'
  BY <1>1 DEF QueueInv, queueVars, QueueTypeOK
<1>4. TypeOK'
  BY <1>1, <1>3 DEF TypeOK, OnMainThread, TimerDue, Exit, Sleep, Awake, Timeout, NoTask, vars, loopVars
<1>5. Freed' = Freed /\ Linking' = Linking
  BY <1>2 DEF Freed, Linking
<1>6. Places' /\ Numbered'
  BY <1>1, <1>2, <1>5, StoreKept
<1>7. Phases'
  BY <1>1, <1>2 DEF Phases, Popping, Draining, OnMainThread, TimerDue, Exit, Sleep, Awake, Timeout, NoTask,
                    vars, loopVars
<1>8. Wakeups'
  BY <1>1, <1>2, <1>5 DEF Wakeups, OnMainThread, TimerDue, Exit, Sleep, Awake, Timeout, NoTask, vars, loopVars
<1> QED BY <1>4, <1>6, <1>7, <1>8

LEMMA TopKeeps ==
    ASSUME LoopInv, QueueInv', Top
    PROVE  TypeOK' /\ Phases' /\ Places' /\ Numbered' /\ Wakeups'
<1> USE DEF LoopInv
<1> USE NodeAssumption
<1>1. /\ npc = "top" /\ UNCHANGED <<admitted, posted, stopped, ready, timers, due, stamp, tasksIssued, callee, ran>>
      /\ npc' \in {"react", "cansleep"}
  BY DEF Top
<1>2. TypeOK'
  BY <1>1 DEF TypeOK, QueueInv
<1>3. /\ UNCHANGED <<last, ticket>> /\ result \notin Item /\ result # Sleeping /\ cpc \notin Popping
      /\ cpc' \notin Popping
      /\ \/ npc' = "react" /\ UNCHANGED <<cpc, result>>
         \/ npc' = "cansleep" /\ cpc' = "sleep" /\ result' = result
         \/ npc' = "cansleep" /\ cpc' = "idle" /\ result' = Null
  BY <1>1 DEF Top, CanSleep, queueVars, producerVars, Phases, Popping, Draining
<1>4. Freed' = Freed /\ result' \notin Item
  BY <1>3 DEF Freed, Node
<1>5. Places' /\ Numbered'
  BY <1>1, <1>3, <1>4, StoreKept
<1>6. Phases'
  BY <1>1, <1>3, <1>4 DEF Phases, Popping, Node
<1>7. Wakeups'
  BY <1>1, <1>3, <1>4 DEF Wakeups, Node
<1> QED BY <1>2, <1>5, <1>6, <1>7

LEMMA ThreadKeeps ==
    ASSUME LoopInv, QueueInv', NEW t \in Thread, AddReadyThreadSafe(t) \/ FinishPush(t) \/ WakeReactor(t)
    PROVE  TypeOK' /\ Phases' /\ Places' /\ Numbered' /\ Wakeups'
<1> USE DEF LoopInv
<1> USE NodeAssumption
<1>1. UNCHANGED <<npc, stopped, ready, timers, due, stamp, tasksIssued, callee, ran>>
  BY DEF AddReadyThreadSafe, FinishPush, WakeReactor, loopVars
<1>2. admitted' \subseteq Thread /\ posted' \in Nat /\ (posted > 0 => posted' > 0)
  BY DEF AddReadyThreadSafe, FinishPush, WakeReactor, loopVars, TypeOK
<1>3. TypeOK'
  BY <1>1, <1>2 DEF TypeOK, QueueInv
<1>4. Freed' = Freed /\ (\A m \in Freed : ticket'[m] = ticket[m]) /\ UNCHANGED <<last, cpc, result>>
  <2>1. CASE AddReadyThreadSafe(t)
    BY <2>1, PushEffect DEF AddReadyThreadSafe
  <2>2. CASE FinishPush(t) \/ WakeReactor(t)
    BY <2>2 DEF FinishPush, WakeReactor, Link, Woken, consumerVars, Freed
  <2> QED BY <2>1, <2>2
<1>5. Places' /\ Numbered'
  BY <1>1, <1>4, StoreKept
<1>6. Phases'
  BY <1>1, <1>4 DEF Phases
<1>7. Wakeups'
  <2>1. CASE AddReadyThreadSafe(t)
    <3>1. PICK n \in Item : Push(t, n)
      BY <2>1 DEF AddReadyThreadSafe
    <3>2. /\ node[t] = Null /\ node' = [node EXCEPT ![t] = n] /\ prev' = [prev EXCEPT ![t] = head]
          /\ mustWake' = mustWake /\ n # Null /\ posted' = posted
          /\ node \in [Thread -> Item \union {Null}] /\ prev \in [Thread -> Node \union {Null}]
      BY <2>1, <3>1 DEF AddReadyThreadSafe, Push, QueueInv, QueueTypeOK, Node
    <3>3. /\ t \in Linking' /\ prev'[t] = head
          /\ \A u \in Linking : u \in Linking' /\ prev'[u] = prev[u]
      BY <3>2 DEF Linking
    <3> QED BY <1>1, <1>4, <3>2, <3>3 DEF Wakeups
  <2>2. CASE FinishPush(t)
    <3>1. /\ node' = [node EXCEPT ![t] = Null] /\ prev' = [prev EXCEPT ![t] = Null]
          /\ mustWake' = IF prev[t] = Sleeping THEN mustWake \union {t} ELSE mustWake
          /\ head' = head /\ posted' = posted
          /\ node \in [Thread -> Item \union {Null}] /\ prev \in [Thread -> Node \union {Null}]
      BY <2>2 DEF FinishPush, Link, loopVars, QueueInv, QueueTypeOK
    <3>2. \A u \in Linking : u # t => u \in Linking' /\ prev'[u] = prev[u]
      BY <3>1 DEF Linking
    <3> QED BY <1>1, <1>4, <3>1, <3>2 DEF Wakeups
  <2>3. CASE WakeReactor(t)
    BY <1>1, <1>4, <2>3 DEF WakeReactor, Woken, Wakeups, TypeOK
  <2> QED BY <2>1, <2>2, <2>3
<1> QED BY <1>3, <1>5, <1>6, <1>7

\* Where pop() is called with no answer in hand.
LEMMA PopKeeps ==
    ASSUME LoopInv, QueueInv', React \/ IssueOnMainThread \/ EndTask
    PROVE  TypeOK' /\ Phases' /\ Places' /\ Numbered' /\ Wakeups'
<1> USE DEF LoopInv
<1> USE NodeAssumption, TaskAssumption
<1>1. /\ cpc' = "pop" /\ result' = Null /\ Freed' = Freed /\ UNCHANGED <<last, ticket>>
  BY PopEffect DEF React, IssueOnMainThread, EndTask
<1>2. npc \in {"react", "running"} /\ npc' \in Draining /\ UNCHANGED <<stopped, stamp, tasksIssued, ran>>
  BY DEF React, IssueOnMainThread, EndTask, Draining
<1>3. result \notin Item /\ Null \notin Item /\ Null # Sleeping /\ Null # Stub
  BY <1>2 DEF Phases, Draining, Node
<1>4. TypeOK'
  <2>1. CASE React
    BY <2>1 DEF React, TypeOK, QueueInv
  <2>2. CASE IssueOnMainThread
    BY <2>2 DEF IssueOnMainThread, Unissued, TypeOK, QueueInv
  <2>3. CASE EndTask
    BY <2>3 DEF EndTask, TypeOK, QueueInv
  <2> QED BY <2>1, <2>2, <2>3
<1>5. Phases'
  <2>1. npc' = "local" => callee' \in Local /\ stamp'[callee'] = 0
    BY <1>2 DEF React, IssueOnMainThread, EndTask, Unissued
  <2>2. npc' # "asleep"
    BY <1>2 DEF Draining
  <2> QED BY <1>1, <1>2, <1>3, <2>1, <2>2 DEF Phases, Popping
<1>6. Wakeups'
  BY <1>2 DEF Wakeups, Draining
<1>7. Places' /\ Numbered'
  <2>1. CASE UNCHANGED <<ready, timers>>
    BY <1>1, <1>2, <1>3, <2>1, StoreKept
  <2>2. CASE React
    <3>1. ready' = ready \union due /\ timers' = timers \ due /\ due \subseteq timers
      BY <2>2 DEF React, TypeOK
    <3>2. Places'
      BY <1>1, <1>2, <1>3, <3>1 DEF Places
    <3>3. Numbered'
      <4>1. \A k \in Freed : k # result /\ k # Null
        BY <1>3 DEF Freed
      <4>2. ~stopped' => Freed' \subseteq ready' \union ran' \union {result'}
        BY <1>1, <1>2, <3>1, <4>1 DEF Numbered
      <4> QED BY <1>1, <1>2, <4>1, <4>2 DEF Numbered
    <3> QED BY <3>2, <3>3
  <2> QED BY <2>1, <2>2 DEF IssueOnMainThread, EndTask
<1> QED BY <1>4, <1>5, <1>6, <1>7

LEMMA TakeReadyKeeps ==
    ASSUME LoopInv, QueueInv', TakeReady
    PROVE  TypeOK' /\ Phases' /\ Places' /\ Numbered' /\ Wakeups'
<1> USE DEF LoopInv
<1> USE NodeAssumption, TaskAssumption
<1>1. /\ cpc' = "pop" /\ result' = Null /\ Freed' = Freed /\ UNCHANGED <<last, ticket>>
  BY PopEffect DEF TakeReady
<1>2. /\ npc \in Draining /\ UNCHANGED <<npc, admitted, posted, stopped, timers, due, callee, ran>>
      /\ ready' = ready \union {result} /\ tasksIssued' = tasksIssued + 1
      /\ stamp' = [stamp EXCEPT ![result] = tasksIssued + 1]
  BY DEF TakeReady, AddReady, Draining
<1>3. result \in Item /\ Null \notin Item /\ Null # Sleeping /\ Null # Stub
  <2>1. result \in Node /\ result # Stub /\ result # Sleeping
    BY <1>2 DEF TakeReady, Phases, QueueInv, QueueTypeOK, Draining
  <2> QED BY <2>1 DEF Node
<1>4. /\ stamp \in [Task -> Nat] /\ tasksIssued \in Nat /\ result \in Task
      /\ \A k \in Local : k # result
      /\ \A k \in Freed : k \in Item /\ k \in Task /\ ticket[k] <= last /\ ticket[k] \in Nat
      /\ last \in Nat
  <2>1. stamp \in [Task -> Nat] /\ tasksIssued \in Nat /\ last \in Nat /\ ticket \in [Item -> Nat]
    BY DEF TypeOK, QueueInv, QueueTypeOK
  <2>2. result \in Task /\ \A k \in Local : k # result
    BY <1>3 DEF Task, Node
  <2> QED BY <2>1, <2>2 DEF Freed, Task
<1>5. TypeOK'
  BY <1>2, <1>4 DEF TypeOK, QueueInv
<1>6. Phases'
  <2>1. npc = "local" => stamp'[callee] = stamp[callee]
    BY <1>2, <1>4 DEF Phases, Task
  <2> QED BY <1>1, <1>2, <1>3, <2>1 DEF Phases, Popping, Draining
<1>7. Wakeups'
  BY <1>2 DEF Wakeups, Draining
<1>8. Places'
  <2>1. \A k \in Local : stamp'[k] = stamp[k]
    BY <1>2, <1>4 DEF Task
  <2> QED BY <1>1, <1>2, <1>3, <1>4, <2>1 DEF Places
<1>9. Numbered'
  <2>1. \A k \in Task : stamp'[k] <= tasksIssued'
    BY <1>2, <1>4 DEF Numbered
  <2>2. ~stopped' => Freed' \subseteq ready' \union ran' \union {result'}
    BY <1>1, <1>2 DEF Numbered
  <2>3. ASSUME NEW m \in Freed, NEW n \in Freed, ticket[m] < ticket[n] PROVE stamp'[m] < stamp'[n]
    <3>1. m # result
      BY <1>3, <1>4, <2>3 DEF Places
    <3>2. CASE n = result
      BY <1>2, <1>4, <3>1, <3>2 DEF Numbered
    <3>3. CASE n # result
      BY <1>2, <1>4, <2>3, <3>1, <3>3 DEF Numbered
    <3> QED BY <3>2, <3>3
  <2> QED BY <1>1, <2>1, <2>2, <2>3 DEF Numbered
<1> QED BY <1>5, <1>6, <1>7, <1>8, <1>9

LEMMA QueueAccessKeeps ==
    ASSUME LoopInv, QueueInv', QueueAccess
    PROVE  TypeOK' /\ Phases' /\ Places' /\ Numbered' /\ Wakeups'
<1> USE DEF LoopInv
<1> USE NodeAssumption, TaskAssumption
<1>1. /\ Access /\ UNCHANGED <<npc, admitted, posted, stopped, ready, timers, due, stamp, tasksIssued, callee, ran>>
      /\ UNCHANGED <<node, prev, mustWake, ticket, issued>>
  BY AccessEffect DEF QueueAccess, loopVars, producerVars
<1>2. TypeOK'
  BY <1>1 DEF TypeOK, QueueInv
<1>3. Linking' = Linking /\ Null \notin Item /\ Null # Sleeping /\ Null # Stub /\ Sleeping # Stub
  BY <1>1 DEF Linking, Node
<1>4. CASE cpc \in Popping /\ last' = last /\ result' = result /\ cpc' \in Popping
  <2>1. Freed' = Freed /\ npc \in Draining
    BY <1>1, <1>4 DEF Freed, Phases
  <2>2. Places' /\ Numbered'
    BY <1>1, <1>4, <2>1, StoreKept
  <2>3. Phases' /\ Wakeups'
    BY <1>1, <1>4, <2>1 DEF Phases, Wakeups, Popping, Draining
  <2> QED BY <1>2, <2>2, <2>3
<1>5. CASE cpc \in Popping /\ last' = last /\ result' = Null /\ cpc' = "idle"
  <2>1. Freed' = Freed /\ npc \in Draining /\ result \notin Item
    BY <1>1, <1>5 DEF Freed, Phases, Popping
  <2>2. Places' /\ Numbered'
    BY <1>1, <1>3, <1>5, <2>1, StoreKept
  <2>3. Phases' /\ Wakeups'
    BY <1>1, <1>3, <1>5, <2>1 DEF Phases, Wakeups, Popping, Draining
  <2> QED BY <1>2, <2>2, <2>3
<1>6. CASE /\ cpc \in Popping /\ tail \in Item /\ result' = tail /\ cpc' = "idle" /\ last' = ticket[tail]
  <2>1. npc \in Draining /\ result \notin Item /\ tail # Sleeping /\ tail # Stub
    BY <1>6 DEF Phases, Popping
  <2>2. /\ tail \notin Freed /\ ticket[tail] > last
        /\ Freed' = Freed \union {tail}
    <3>1. /\ ticket[tail] > last
          /\ \A n \in Item : ticket[n] > last /\ n # tail => ticket[n] > ticket[tail]
      BY <1>6, OldestFirst
    <3>2. last \in Nat /\ \A n \in Item : ticket[n] \in Nat
      BY DEF QueueInv, QueueTypeOK
    <3>3. \A n \in Item : n \in Freed' <=> n \in Freed \/ n = tail
      <4>1. ticket' = ticket /\ last' = ticket[tail] /\ tail \in Item
        BY <1>1, <1>6
      <4>2. \A n \in Item : /\ n \in Freed <=> ticket[n] \in 1 .. last
                            /\ n \in Freed' <=> ticket[n] \in 1 .. ticket[tail]
        BY <4>1, Zenon DEF Freed
      <4>3. SUFFICES ASSUME NEW n \in Item
                     PROVE  ticket[n] \in 1 .. ticket[tail] <=> ticket[n] \in 1 .. last \/ n = tail
        BY <4>2, Zenon
      <4>4. ticket[n] \in Nat /\ ticket[tail] \in Nat /\ last \in Nat /\ ticket[tail] > last
        BY <3>1, <3>2, <4>1
      <4>5. CASE n = tail
        BY <4>4, <4>5
      <4>6. CASE n # tail
        <5>1. ticket[n] > last => ticket[n] > ticket[tail]
          BY <3>1, <4>6
        <5> QED BY <4>4, <4>6, <5>1
      <4> QED BY <4>5, <4>6
    <3>4. Freed \subseteq Item /\ Freed' \subseteq Item
      BY DEF Freed
    <3> QED BY <1>6, <3>1, <3>2, <3>3, <3>4 DEF Freed
  <2>3. Places'
    <3>1. tail \notin Local
      BY <1>6 DEF Node
    <3> QED BY <1>1, <1>6, <2>1, <2>2, <3>1 DEF Places
  <2>4. Numbered'
    <3>1. \A m \in Freed : m # result /\ m \in Item
      BY <2>1 DEF Freed
    <3> QED BY <1>1, <1>6, <2>1, <2>2, <3>1 DEF Numbered
  <2>5. Phases' /\ Wakeups'
    BY <1>1, <1>6, <2>1 DEF Phases, Wakeups, Popping, Draining
  <2> QED BY <1>2, <2>3, <2>4, <2>5
<1>7. CASE cpc \notin Popping
  <2>1. /\ last' = last
        /\ \/ cpc = "sleep" /\ cpc' = "sleeplink" /\ result' = result /\ head' = Sleeping
           \/ cpc = "sleeplink" /\ cpc' = "idle" /\ result' \in {Sleeping, Null} /\ head' = head
    BY <1>1, <1>7, SleepingEffect
  <2>2. Freed' = Freed /\ npc = "cansleep" /\ result \notin Item /\ result' \notin Item
    BY <1>1, <1>3, <2>1 DEF Freed, Phases
  <2>3. Places' /\ Numbered'
    BY <1>1, <2>1, <2>2, StoreKept
  <2>4. Phases'
    BY <1>1, <1>3, <2>1, <2>2 DEF Phases, Popping
  <2>5. Wakeups'
    BY <1>1, <1>3, <2>1, <2>2 DEF Wakeups
  <2> QED BY <1>2, <2>3, <2>4, <2>5
<1> QED BY <1>1, <1>4, <1>5, <1>6, <1>7, PoppingEffect

\* A local task that was never issued becomes ready, or a timer.
LEMMA LocalAdded ==
    ASSUME LoopInv, NEW k \in Local, stamp[k] = 0, UNCHANGED <<queueVars, ran, stopped>>,
           stamp' = [stamp EXCEPT ![k] = tasksIssued + 1], tasksIssued' = tasksIssued + 1,
           \/ ready' = ready \union {k} /\ timers' = timers
           \/ timers' = timers \union {k} /\ ready' = ready
    PROVE  Places' /\ Numbered' /\ stamp' \in [Task -> Nat] /\ tasksIssued' \in Nat
<1> USE DEF LoopInv
<1> USE NodeAssumption, TaskAssumption
<1>1. UNCHANGED <<result, last, ticket>>
  BY DEF queueVars
<1>2. /\ stamp \in [Task -> Nat] /\ tasksIssued \in Nat /\ k \in Task
      /\ \A n \in Item : n \in Task /\ n # k
  BY DEF TypeOK, Task, Node
<1>3. Freed' = Freed /\ Freed \subseteq Item
  BY <1>1 DEF Freed
<1>4. k \notin ready /\ k \notin timers /\ k \notin ran
  BY DEF Places
<1>5. Places'
  <2>1. \A j \in Local : j \in Task
    BY DEF Task
  <2>2. \A j \in Local : j \in ready' \union timers' \union ran' => stamp'[j] > 0
    BY <1>2, <2>1 DEF Places
  <2> QED BY <1>1, <1>2, <1>3, <1>4, <2>2 DEF Places
<1>6. Numbered'
  <2>1. \A j \in Task : stamp'[j] <= tasksIssued'
    BY <1>2 DEF Numbered
  <2>2. \A n \in Freed : stamp'[n] = stamp[n]
    BY <1>2, <1>3
  <2> QED BY <1>1, <1>3, <2>1, <2>2 DEF Numbered
<1> QED BY <1>2, <1>5, <1>6

LEMMA IssueKeeps ==
    ASSUME LoopInv, QueueInv', IssueReady \/ IssueTimer \/ Drained
    PROVE  TypeOK' /\ Phases' /\ Places' /\ Numbered' /\ Wakeups'
<1> USE DEF LoopInv
<1> USE NodeAssumption, TaskAssumption
<1>1. /\ UNCHANGED <<queueVars, admitted, posted, stopped, due, ran>>
      /\ UNCHANGED <<result, cpc, last, ticket, head>>
      /\ npc \in {"running", "drain", "yield", "local"} /\ npc' \in {"running", "task", "top"}
      /\ callee' \in {callee, Null}
  BY DEF IssueReady, IssueTimer, Drained, queueVars
<1>2. result \notin Item /\ result # Sleeping /\ (cpc = "idle" \/ npc = "running")
  BY <1>1 DEF IssueReady, IssueTimer, Drained, Phases, Node, Draining
<1>3. cpc \notin Popping /\ cpc \notin {"sleep", "sleeplink"}
  BY <1>1, <1>2 DEF Phases, Popping, Draining
<1>4. Phases' /\ Wakeups'
  BY <1>1, <1>2, <1>3 DEF Phases, Wakeups
<1>5. CASE UNCHANGED <<ready, timers, stamp, tasksIssued>>
  <2>1. Freed' = Freed
    BY <1>1 DEF Freed
  <2>2. Places' /\ Numbered'
    BY <1>1, <1>5, <2>1, StoreKept
  <2>3. TypeOK'
    BY <1>1, <1>5 DEF TypeOK, QueueInv
  <2> QED BY <1>4, <2>2, <2>3
<1>6. ASSUME NEW k \in Local, stamp[k] = 0,
             stamp' = [stamp EXCEPT ![k] = tasksIssued + 1], tasksIssued' = tasksIssued + 1,
             \/ ready' = ready \union {k} /\ timers' = timers
             \/ timers' = timers \union {k} /\ ready' = ready
      PROVE  TypeOK' /\ Places' /\ Numbered'
  <2>1. Places' /\ Numbered' /\ stamp' \in [Task -> Nat] /\ tasksIssued' \in Nat
    BY <1>1, <1>6, LocalAdded
  <2>2. ready' \subseteq Task /\ timers' \subseteq Task /\ due' \subseteq timers'
    BY <1>1, <1>6 DEF TypeOK, Task
  <2>3. TypeOK'
    BY <1>1, <2>1, <2>2 DEF TypeOK, QueueInv
  <2> QED BY <2>1, <2>3
<1>7. CASE IssueReady \/ IssueTimer
  BY <1>4, <1>6, <1>7 DEF IssueReady, IssueTimer, AddReady, Unissued
<1>8. CASE Drained /\ npc = "local"
  <2>1. callee \in Local /\ stamp[callee] = 0
    BY <1>8 DEF Phases
  <2>2. /\ ready' = ready \union {callee} /\ timers' = timers
        /\ stamp' = [stamp EXCEPT ![callee] = tasksIssued + 1] /\ tasksIssued' = tasksIssued + 1
    BY <1>8 DEF Drained, AddReady
  <2> QED BY <1>4, <1>6, <2>1, <2>2
<1> QED BY <1>5, <1>7, <1>8 DEF Drained

LEMMA RunningKeeps ==
    ASSUME LoopInv, QueueInv', RunTask
    PROVE  TypeOK' /\ Phases' /\ Places' /\ Numbered' /\ Wakeups'
<1> USE DEF LoopInv
<1> USE NodeAssumption
<1>1. PICK k \in ready :
          /\ ran' = ran \union {k} /\ stopped' = (stopped \/ k = StopTask)
          /\ ready' = IF k = StopTask THEN {} ELSE ready \ {k}
          /\ timers' = IF k = StopTask THEN {} ELSE timers
          /\ due' = IF k = StopTask THEN {} ELSE due
  BY DEF RunTask
<1>2. /\ npc = "task" /\ npc' = "running" /\ UNCHANGED <<admitted, posted, stamp, tasksIssued, callee>>
      /\ UNCHANGED <<result, cpc, last, ticket>>
  BY DEF RunTask, queueVars
<1>3. Freed' = Freed /\ result \notin Item /\ Freed \subseteq Item
  BY <1>2 DEF Freed, Phases, Draining
<1>4. TypeOK'
  BY <1>1, <1>2 DEF TypeOK, QueueInv
<1>5. Phases' /\ Wakeups'
  BY <1>2 DEF Phases, Wakeups, Draining
<1>6. Places'
  BY <1>1, <1>2, <1>3 DEF Places
<1>7. Numbered'
  BY <1>1, <1>2, <1>3 DEF Numbered
<1> QED BY <1>4, <1>5, <1>6, <1>7

LEMMA LoopInvStep ==
    ASSUME LoopInv, [Next]_vars
    PROVE  LoopInv'
<1>1. QueueInv'
  BY IsQueueStep, QueueInvStep DEF LoopInv
<1>2. TypeOK' /\ Phases' /\ Places' /\ Numbered' /\ Wakeups'
  <2>1. CASE \/ \E t \in Thread : OnMainThread(t)
             \/ TimerDue \/ Exit \/ Sleep \/ Awake \/ Timeout \/ NoTask
             \/ UNCHANGED vars
    BY <2>1, ControlKeeps
  <2>2. CASE \E t \in Thread : AddReadyThreadSafe(t) \/ FinishPush(t) \/ WakeReactor(t)
    BY <1>1, <2>2, ThreadKeeps
  <2>3. CASE Top
    BY <1>1, <2>3, TopKeeps
  <2>4. CASE React \/ IssueOnMainThread \/ EndTask
    BY <1>1, <2>4, PopKeeps
  <2>5. CASE TakeReady
    BY <1>1, <2>5, TakeReadyKeeps
  <2>6. CASE QueueAccess
    BY <1>1, <2>6, QueueAccessKeeps
  <2>7. CASE IssueReady \/ IssueTimer \/ Drained
    BY <1>1, <2>7, IssueKeeps
  <2>8. CASE RunTask
    BY <1>1, <2>8, RunningKeeps
  <2> QED BY <2>1, <2>2, <2>3, <2>4, <2>5, <2>6, <2>7, <2>8 DEF Next, Threads, Main
<1> QED BY <1>1, <1>2 DEF LoopInv

LEMMA LoopInvHolds ==
    Init /\ [][Next]_vars => []LoopInv
BY LoopInvInit, LoopInvStep, PTL

-----------------------------------------------------------------------------
(* Theorems                                                                *)

\* Every variable of the loop and of the queue keeps its type: popNode never
\* takes a null pointer for the new tail, and AddReady never a null task.
THEOREM LoopTypeCorrect == Spec => []TypeOK
<1>1. LoopInv => TypeOK
  BY DEF LoopInv
<1> QED BY <1>1, LoopInvHolds, PTL DEF Spec

\* ThreadSafeQueue::pop meets neither of its assertions, and no thread touches
\* a node after pop deleted it, whichever accesses of a push it falls between.
THEOREM PopIsSafe == Spec => [](AssertsHold /\ NoUseAfterFree)
<1>1. LoopInv => AssertsHold /\ NoUseAfterFree
  BY QueueInvImplies DEF LoopInv
<1> QED BY <1>1, LoopInvHolds, PTL DEF Spec

\* No element pushed to the queue is lost or popped twice, and they are popped
\* in the order of the exchanges in pushNode.
THEOREM QueueLosesNothing == Spec => []NothingLost
<1>1. LoopInv => NothingLost
  BY QueueInvImplies DEF LoopInv
<1> QED BY <1>1, LoopInvHolds, PTL DEF Spec

\* Once ThreadSafeQueue::canSleep has returned true, the queue is empty, and
\* whatever is pushed comes behind the node Sleeping.
THEOREM CanSleepIsSafe == Spec => []SleepIsSafe
<1>1. LoopInv => SleepIsSafe
  BY QueueInvImplies DEF LoopInv
<1> QED BY <1>1, LoopInvHolds, PTL DEF Spec

\* Net2::run never sleeps over an element: a completion is posted, or the
\* thread that will post one is on its way.
THEOREM NoWakeupIsLost == Spec => []NoLostWakeup
<1>1. ASSUME LoopInv PROVE NoLostWakeup
  <2> USE NodeAssumption
  <2> SUFFICES ASSUME npc = "asleep", head = Sleeping PROVE InList \intersect Item = {}
    BY <1>1 DEF LoopInv, NoLostWakeup, Wakeups, Phases
  <2>1. Len(chain) > 1 /\ chain[1] = Stub /\ chain[2] = Sleeping
    BY <1>1, QueueInvImplies DEF LoopInv, Phases, SleepIsSafe
  <2>2. chain \in Seq(Node) /\ Distinct(chain) /\ chain[Len(chain)] = Sleeping
    BY <1>1 DEF LoopInv, QueueInv, QueueTypeOK, ChainShape
  <2>3. Len(chain) = 2
    <3>1. Len(chain) \in Nat /\ 2 \in 1 .. Len(chain) /\ Len(chain) \in 1 .. Len(chain)
      BY <2>1, <2>2, LenProperties
    <3> QED BY <2>1, <2>2, <3>1 DEF Distinct
  <2>4. InList \subseteq {Stub, Sleeping}
    BY <2>1, <2>3 DEF InList
  <2> QED BY <2>4
<1> QED BY <1>1, LoopInvHolds, PTL DEF Spec

\* A task that ran is not ready, not a timer and not in the queue any more.
THEOREM TasksRunOnce == Spec => []RunsOnce
<1>1. ASSUME LoopInv PROVE RunsOnce
  <2> USE NodeAssumption, TaskAssumption
  <2>1. ASSUME NEW k \in ran PROVE k \notin InList
    <3>1. k \in Local \/ k \in Freed
      BY <1>1, <2>1 DEF LoopInv, Places
    <3>2. \A n \in InList : n \in Node
      BY <1>1, ElementOfSeq DEF LoopInv, QueueInv, QueueTypeOK, InList
    <3>3. \A n \in Freed : n \notin InList
      <4>1. NothingLost /\ last \in Nat /\ \A n \in Item : ticket[n] \in Nat
        BY <1>1, QueueInvImplies DEF LoopInv, QueueInv, QueueTypeOK
      <4> QED BY <4>1 DEF NothingLost, Freed
    <3> QED BY <3>1, <3>2, <3>3
  <2> QED BY <1>1, <2>1 DEF LoopInv, Places, RunsOnce
<1> QED BY <1>1, LoopInvHolds, PTL DEF Spec

\* Tasks of one priority that threads handed over with onMainThread run in the
\* order of their pushes, until the loop is stopped.
THEOREM OrderIsKept == Spec => HandedOverInOrder
<1> DEFINE Ordered ==
    \A m, n \in Item :
        /\ n \in ran' \ ran /\ ~stopped
        /\ ticket[m] \in 1 .. ticket[n] - 1 /\ (m \in High <=> n \in High)
        => m \in ran
<1>1. ASSUME LoopInv, [Next]_vars PROVE [Ordered]_vars
  <2> USE NodeAssumption, TaskAssumption
  <2> USE <1>1 DEF LoopInv
  <2> SUFFICES ASSUME NEW m \in Item, NEW n \in Item, n \in ran' \ ran, ~stopped,
                      ticket[m] \in 1 .. ticket[n] - 1, m \in High <=> n \in High, m \notin ran
               PROVE  FALSE
    OBVIOUS
  <2>1. RunTask
    BY DEF Next, Threads, Main, Awake, Timeout, OnMainThread, AddReadyThreadSafe, FinishPush, WakeReactor,
           TimerDue, Exit, Top, Sleep, React, QueueAccess, TakeReady, Drained, NoTask, IssueReady,
           IssueTimer, IssueOnMainThread, EndTask, vars, loopVars
  <2>2. npc = "task" /\ n \in ready /\ \A j \in ready \ {n} : Before(n, j)
    BY <2>1 DEF RunTask
  <2>3. result \notin Item
    BY <2>2 DEF Phases, Draining
  <2>4. n \in Freed /\ m \in Freed /\ ticket[m] < ticket[n] /\ m # n
    <3>1. n \in Freed
      BY <2>2 DEF Places, Node
    <3> QED BY <3>1 DEF Freed, QueueInv, QueueTypeOK
  <2>5. m \in ready
    BY <2>3, <2>4 DEF Numbered
  <2>6. stamp[n] < stamp[m]
    BY <2>2, <2>4, <2>5 DEF Before
  <2>7. stamp[m] < stamp[n]
    BY <2>3, <2>4 DEF Numbered
  <2>8. stamp[m] \in Nat /\ stamp[n] \in Nat
    BY DEF TypeOK, Task
  <2> QED BY <2>6, <2>7, <2>8
<1> QED BY <1>1, LoopInvHolds, PTL DEF Spec, HandedOverInOrder
=============================================================================
