-------------------------- MODULE ThreadSafeQueue --------------------------
(***************************************************************************)
(* The queue through which other threads hand tasks to Flow's main thread  *)
(* (flow/include/flow/ThreadSafeQueue.h): a linked list with many          *)
(* producers and one consumer.  A push is two atomic accesses, an exchange *)
(* of head and a store to the node that was there, and between the two the *)
(* list is cut; one action models one access to shared memory.             *)
(*                                                                         *)
(* The atomics are sequentially consistent in the code, as they are here.  *)
(***************************************************************************)
EXTENDS Integers, Sequences

CONSTANTS Thread,                  \* the producers
          Item,                    \* the nodes of the elements they push
          Stub, Sleeping, Null     \* the two nodes of the queue, and nullptr

Node == Item \union {Stub, Sleeping}

ASSUME NodeAssumption ==
    /\ Stub # Sleeping /\ Null \notin Node
    /\ Stub \notin Item /\ Sleeping \notin Item

VARIABLES
    head, tail, next, sleepy,    \* the members of the queue and of its nodes
    node, prev,                  \* what each producer's pushNode has in hand
    mustWake,                    \* the producers whose push() returned true
    at, before,                  \* locals of the consumer: popNode's tail, pushNode's prev
    cpc, again, result,          \* where the consumer is; pop()'s second call; its answer
    chain, ticket, issued, last  \* history: nodes from tail to head; the exchanges
                                 \* numbered; ticket of the last element popped

queueVars == <<head, tail, next, sleepy, node, prev, mustWake, at, before,
               cpc, again, result, chain, ticket, issued, last>>

producerVars == <<node, prev, mustWake, ticket, issued>>
consumerVars == <<tail, sleepy, at, before, cpc, again, result, last>>

QueueInit ==
    /\ head = Stub /\ tail = Stub /\ sleepy = FALSE
    /\ next = [n \in Node |-> Null]
    /\ node = [t \in Thread |-> Null] /\ prev = [t \in Thread |-> Null]
    /\ mustWake = {}
    /\ at = Null /\ before = Null
    /\ cpc = "idle" /\ again = FALSE /\ result = Null
    /\ chain = <<Stub>> /\ ticket = [n \in Item |-> 0]
    /\ issued = 0 /\ last = 0

-----------------------------------------------------------------------------
(* The producers                                                           *)

\* pushNode's exchange, by thread t with a new node n.
Push(t, n) ==
    /\ node[t] = Null /\ t \notin mustWake /\ ticket[n] = 0
    /\ head' = n /\ chain' = Append(chain, n)
    /\ node' = [node EXCEPT ![t] = n] /\ prev' = [prev EXCEPT ![t] = head]
    /\ ticket' = [ticket EXCEPT ![n] = issued + 1] /\ issued' = issued + 1
    /\ UNCHANGED <<next, mustWake, consumerVars>>

\* Faulty Link: a push behind Sleeping does not say so.
LinkSilent(t) ==
    /\ node[t] # Null
    /\ next' = [next EXCEPT ![prev[t]] = node[t]]
    /\ node' = [node EXCEPT ![t] = Null] /\ prev' = [prev EXCEPT ![t] = Null]
    /\ UNCHANGED <<head, mustWake, consumerVars, chain, ticket, issued>>

\* pushNode's store; push() returns whether the node before was Sleeping.
Link(t) ==
    /\ node[t] # Null
    /\ next' = [next EXCEPT ![prev[t]] = node[t]]
    /\ node' = [node EXCEPT ![t] = Null] /\ prev' = [prev EXCEPT ![t] = Null]
    /\ mustWake' = IF prev[t] = Sleeping THEN mustWake \union {t} ELSE mustWake
    /\ UNCHANGED <<head, consumerVars, chain, ticket, issued>>

\* The caller of push() has woken the consumer.
Woken(t) ==
    /\ t \in mustWake
    /\ mustWake' = mustWake \ {t}
    /\ UNCHANGED <<head, next, node, prev, consumerVars, chain, ticket, issued>>

-----------------------------------------------------------------------------
(* The consumer: pop() and popNode()                                       *)

\* What pop() does with the node that popNode() returns.
Return(n) ==
    /\ at' = Null
    /\ \/ /\ n = Sleeping /\ ~again
          /\ sleepy' = FALSE /\ again' = TRUE /\ cpc' = "pop"
          /\ UNCHANGED <<result, last>>
       \/ /\ n = Stub \/ (n = Sleeping /\ again)      \* ASSERT(false)
          /\ cpc' = "failed"
          /\ UNCHANGED <<sleepy, again, result, last>>
       \/ /\ n \in Item \union {Null}
          /\ cpc' = "idle" /\ again' = FALSE /\ result' = n
          /\ last' = IF n = Null THEN last ELSE ticket[n]
          /\ UNCHANGED sleepy

\* this->tail moves on to n, so the node it leaves is out of the list.
Leave(n) == tail' = n /\ chain' = Tail(chain)

Pop ==
    /\ cpc = "idle"
    /\ cpc' = "pop" /\ result' = Null
    /\ UNCHANGED <<head, tail, next, sleepy, at, before, again, chain, last, producerVars>>

\* next = tail->next.load(), and the tests up to the next access.
LoadNext ==
    /\ cpc = "pop"
    /\ \/ /\ tail = Stub /\ next[tail] = Null
          /\ Return(Null) /\ UNCHANGED <<tail, chain>>
       \/ /\ tail = Stub /\ next[tail] # Null
          /\ Leave(next[tail]) /\ at' = next[tail] /\ cpc' = "next"
          /\ UNCHANGED <<sleepy, again, result, last>>
       \/ /\ tail # Stub /\ next[tail] # Null
          /\ Leave(next[tail]) /\ Return(tail)
       \/ /\ tail # Stub /\ next[tail] = Null
          /\ at' = tail /\ cpc' = "head"
          /\ UNCHANGED <<tail, chain, sleepy, again, result, last>>
    /\ UNCHANGED <<head, next, before, producerVars>>

\* next = next->next.load(), after the stub was skipped.
LoadAfterStub ==
    /\ cpc = "next"
    /\ \/ /\ next[at] # Null
          /\ Leave(next[at]) /\ Return(at)
       \/ /\ next[at] = Null
          /\ cpc' = "head" /\ UNCHANGED <<tail, chain, at, sleepy, again, result, last>>
    /\ UNCHANGED <<head, next, before, producerVars>>

\* Faulty LoadHead: the last node is returned with no stub behind it.
LoadHeadTakes ==
    /\ cpc = "head"
    /\ Return(IF at = head THEN at ELSE Null)
    /\ UNCHANGED <<tail, head, next, before, chain, producerVars>>

\* head.load(): a push is under way when the list does not end here.
LoadHead ==
    /\ cpc = "head"
    /\ \/ /\ at # head /\ Return(Null)
       \/ /\ at = head /\ cpc' = "stub"
          /\ UNCHANGED <<at, sleepy, again, result, last>>
    /\ UNCHANGED <<tail, head, next, before, chain, producerVars>>

\* The exchange and the store of the consumer's own pushNode(n).
ConsumerPush(here, n, then) ==
    /\ cpc = here
    /\ cpc' = then
    /\ next' = [next EXCEPT ![n] = Null]
    /\ before' = head /\ head' = n /\ chain' = Append(chain, n)
    /\ UNCHANGED <<tail, sleepy, again, result, last, at, producerVars>>

StubLink ==
    /\ cpc = "stublink"
    /\ cpc' = "last"
    /\ next' = [next EXCEPT ![before] = Stub] /\ before' = Null
    /\ UNCHANGED <<head, tail, sleepy, again, result, last, at, chain, producerVars>>

\* tail->next once more: there is a next node unless a push came in between.
LoadLast ==
    /\ cpc = "last"
    /\ \/ /\ next[at] # Null
          /\ Leave(next[at]) /\ Return(at)
       \/ /\ next[at] = Null
          /\ Return(Null) /\ UNCHANGED <<tail, chain>>
    /\ UNCHANGED <<head, next, before, producerVars>>

-----------------------------------------------------------------------------
(* The consumer: canSleep()                                                *)

MaySleep == ~sleepy /\ tail = Stub /\ next[tail] = Null

\* The two rejections; an answer other than Sleeping means no.
CanSleep ==
    /\ cpc = "idle"
    /\ \/ /\ MaySleep /\ cpc' = "sleep" /\ UNCHANGED result
       \/ /\ ~MaySleep /\ cpc' = "idle" /\ result' = Null
    /\ UNCHANGED <<head, tail, next, sleepy, again, last, at, before, chain, producerVars>>

\* The answer is yes when the node before Sleeping was the stub.
SleepLink ==
    /\ cpc = "sleeplink"
    /\ cpc' = "idle" /\ sleepy' = TRUE
    /\ result' = IF before = Stub THEN Sleeping ELSE Null
    /\ next' = [next EXCEPT ![before] = Sleeping] /\ before' = Null
    /\ UNCHANGED <<head, tail, again, last, at, chain, producerVars>>

Producer(t) == (\E n \in Item : Push(t, n)) \/ Link(t) \/ Woken(t)

\* The accesses of a call in progress.
Access ==
    \/ LoadNext \/ LoadAfterStub \/ LoadHead
    \/ ConsumerPush("stub", Stub, "stublink") \/ StubLink \/ LoadLast
    \/ ConsumerPush("sleep", Sleeping, "sleeplink") \/ SleepLink

QueueNext == (\E t \in Thread : Producer(t)) \/ Pop \/ CanSleep \/ Access

QueueSpec == QueueInit /\ [][QueueNext]_queueVars

-----------------------------------------------------------------------------
(* Properties                                                              *)

Linking == {t \in Thread : node[t] # Null}
Freed == {n \in Item : ticket[n] \in 1 .. last}
InList == {chain[i] : i \in 1 .. Len(chain)}

QueueTypeOK ==
    /\ head \in Node /\ tail \in Node /\ sleepy \in BOOLEAN
    /\ next \in [Node -> Node \union {Null}]
    /\ node \in [Thread -> Item \union {Null}] /\ prev \in [Thread -> Node \union {Null}]
    /\ mustWake \subseteq Thread
    /\ at \in Node \union {Null} /\ before \in Node \union {Null}
    /\ cpc \in {"idle", "pop", "next", "head", "stub", "stublink", "last", "sleep", "sleeplink", "failed"}
    /\ again \in BOOLEAN /\ result \in Node \union {Null}
    /\ chain \in Seq(Node) /\ ticket \in [Item -> Nat]
    /\ issued \in Nat /\ last \in Nat

\* pop() never meets one of its two ASSERT(false): popNode never returns the
\* stub, and never Sleeping twice in one pop.
AssertsHold == cpc # "failed"

\* pop() deletes the node it returns.  Nobody still has to write to a deleted
\* node or reads one: not the producer between its exchange and its store, not
\* the members of the queue, not popNode's local tail.
NoUseAfterFree ==
    /\ \A t \in Linking : prev[t] \notin Freed
    /\ head \notin Freed /\ tail \notin Freed
    /\ cpc \in {"next", "head", "stub", "stublink", "last"} => at \notin Freed
    /\ cpc \in {"stublink", "sleeplink"} => before \notin Freed

\* No element is lost or popped twice, and elements leave in the order of
\* their exchanges: those with a ticket up to the last one popped are gone, the
\* others are in the list, once each and in order.
NothingLost ==
    /\ \A n \in Item : n \in InList <=> ticket[n] > last
    /\ \A i, j \in 1 .. Len(chain) :
           i < j => /\ chain[i] # chain[j]
                    /\ chain[i] \in Item /\ chain[j] \in Item => ticket[chain[i]] < ticket[chain[j]]

\* "If canSleep returns true, then the queue is empty and the next push() will
\* return true": until the consumer pops again, Sleeping is the first node in
\* the list, so that no element is ahead of it and the next one is behind it.
SleepIsSafe ==
    cpc = "idle" /\ result = Sleeping =>
        Len(chain) > 1 /\ chain[1] = Stub /\ chain[2] = Sleeping
=============================================================================
