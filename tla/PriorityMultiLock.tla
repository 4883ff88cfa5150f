------------------------- MODULE PriorityMultiLock -------------------------
(***************************************************************************)
(* PriorityMultiLock (flow/include/flow/PriorityMultiLock.h): a lock with  *)
(* a number of slots that priorities with waiters share by weight.  One    *)
(* actor, runner(), hands freed slots to waiters.  It is woken inside the  *)
(* release that frees a slot, and each grant resumes the waiter inside     *)
(* runner(): while it is at "sent", other calls of the lock may be made    *)
(* from the waiter's continuation.                                         *)
(*                                                                         *)
(* currentCapacity() rounds a float up; for the small integers involved    *)
(* that is the exact ceiling.                                              *)
(***************************************************************************)
EXTENDS Integers, Sequences, FiniteSets, FiniteSetsExt, SequencesExt

CONSTANTS User, Priority,
          Class,        \* the priority each user locks with
          Concurrency,
          Weights       \* the vectors of weights

ASSUME ClassAssumption ==
    /\ Concurrency \in Nat \ {0} /\ User \subseteq Nat \ {0} /\ Priority \subseteq Nat
    /\ Class \in [User -> Priority]
    /\ Weights \subseteq [Priority -> Nat \ {0}]

VARIABLES
    weight,
    concurrency, available, totalPendingWeights,
    queue,                \* the waiters of each priority
    runners,              \* the number of slots each priority has
    waitingPriorities,    \* the priorities with waiters
    killed, halted,
    user,                 \* each user's state: "out", "waits", "holds", "lost"
    rpc, iter, sent,      \* runner(): where it is, its iterator, the user whose lock it holds
    nested                \* history: a waiter's continuation got a slot without waiting

pmlVars == <<weight, concurrency, available, totalPendingWeights, queue, runners,
             waitingPriorities, killed, halted, user, rpc, iter, sent, nested>>

End == -1       \* waitingPriorities.end()
Nobody == 0

PmlInit ==
    /\ weight \in Weights
    /\ concurrency = Concurrency /\ available = Concurrency /\ totalPendingWeights = 0
    /\ queue = [p \in Priority |-> <<>>] /\ runners = [p \in Priority |-> 0]
    /\ waitingPriorities = <<>> /\ killed = FALSE /\ halted = FALSE
    /\ user = [u \in User |-> "out"]
    /\ rpc = "wait" /\ iter = End /\ sent = Nobody /\ nested = FALSE

-----------------------------------------------------------------------------
Ceiling(a, b) == (a + b - 1) \div b

\* currentCapacity(), with total the weights of the priorities with waiters.
Capacity(p, total) == Ceiling(weight[p] * concurrency, total)

Waiting == MapThenSumSet(LAMBDA p : Len(queue[p]), Priority)

\* Calls come from elsewhere, or from the continuation of the user just served.
CallsAllowed == rpc # "launch"

AddRunner(p) ==
    /\ runners' = [runners EXCEPT ![p] = @ + 1]
    /\ available' = available - 1

\* Faulty Lock: the weight stays in the total of a caller that does not wait.
LockKeepsWeight(u) ==
    LET p == Class[u]
    IN  /\ CallsAllowed /\ user[u] = "out" /\ ~killed
        /\ queue[p] = <<>> /\ available > 0
        /\ runners[p] < Capacity(p, totalPendingWeights + weight[p])
        /\ AddRunner(p) /\ user' = [user EXCEPT ![u] = "holds"]
        /\ totalPendingWeights' = totalPendingWeights + weight[p]
        /\ nested' = (nested \/ rpc = "sent")
        /\ UNCHANGED <<weight, concurrency, queue, waitingPriorities, killed, halted, rpc, iter, sent>>

\* lock() with a slot to spare.
LockNow(u) ==
    LET p == Class[u]
    IN  /\ CallsAllowed /\ user[u] = "out" /\ ~killed
        /\ queue[p] = <<>> /\ available > 0
        /\ runners[p] < Capacity(p, totalPendingWeights + weight[p])
        /\ AddRunner(p) /\ user' = [user EXCEPT ![u] = "holds"]
        /\ nested' = (nested \/ rpc = "sent")
        /\ UNCHANGED <<weight, concurrency, totalPendingWeights, queue, waitingPriorities,
                       killed, halted, rpc, iter, sent>>

\* lock() otherwise: the user waits.
LockLater(u) ==
    LET p == Class[u]
    IN  /\ CallsAllowed /\ user[u] = "out" /\ ~killed
        /\ ~(queue[p] = <<>> /\ available > 0
             /\ runners[p] < Capacity(p, totalPendingWeights + weight[p]))
        /\ queue' = [queue EXCEPT ![p] = Append(@, u)]
        /\ user' = [user EXCEPT ![u] = "waits"]
        /\ IF queue[p] = <<>>
           THEN /\ totalPendingWeights' = totalPendingWeights + weight[p]
                /\ waitingPriorities' = Append(waitingPriorities, p)
           ELSE UNCHANGED <<totalPendingWeights, waitingPriorities>>
        /\ UNCHANGED <<weight, concurrency, available, runners, killed, halted, rpc, iter, sent, nested>>

\* Faulty Release: the runner is woken only when more than one user waits.
ReleaseLate(u) ==
    LET p == Class[u]
    IN  /\ CallsAllowed /\ user[u] = "holds" /\ sent # u
        /\ user' = [user EXCEPT ![u] = "out"]
        /\ available' = available + 1 /\ runners' = [runners EXCEPT ![p] = @ - 1]
        /\ rpc' = IF rpc = "wait" /\ Waiting > 1 THEN "launch" ELSE rpc
        /\ UNCHANGED <<weight, concurrency, totalPendingWeights, queue, waitingPriorities,
                       killed, halted, iter, sent, nested>>

\* The lock is released: releaseRunner() frees the slot and triggers the
\* runner, if it waits for that.
ReleaseSlot(u) ==
    LET p == Class[u]
    IN  /\ CallsAllowed /\ user[u] = "holds" /\ sent # u
        /\ user' = [user EXCEPT ![u] = "out"]
        /\ available' = available + 1 /\ runners' = [runners EXCEPT ![p] = @ - 1]
        /\ rpc' = IF rpc = "wait" /\ Waiting > 0 THEN "launch" ELSE rpc
        /\ UNCHANGED <<weight, concurrency, totalPendingWeights, queue, waitingPriorities,
                       killed, halted, iter, sent, nested>>

\* A lock that has no slot: its continuation releases it before addRunner(),
\* or the lock was halted meanwhile.
ReleaseUncounted(u) ==
    /\ CallsAllowed
    /\ user[u] = "lost" \/ (user[u] = "holds" /\ sent = u)
    /\ user' = [user EXCEPT ![u] = "out"]
    /\ sent' = IF sent = u THEN Nobody ELSE sent
    /\ UNCHANGED <<weight, concurrency, available, totalPendingWeights, queue, runners,
                   waitingPriorities, killed, halted, rpc, iter, nested>>

-----------------------------------------------------------------------------
(* runner()                                                                *)

\* The priorities in the order of the scan that starts at the iterator.
ScanOrder ==
    LET k == IF iter = End THEN 1 ELSE CHOOSE i \in DOMAIN waitingPriorities : waitingPriorities[i] = iter
    IN  SubSeq(waitingPriorities, k, Len(waitingPriorities)) \o SubSeq(waitingPriorities, 1, k - 1)

HasCapacity(p) == queue[p] # <<>> /\ runners[p] < Capacity(p, totalPendingWeights)

\* "Find the next priority with waiters and capacity": without one, the scan
\* goes round for ever.
Launch ==
    /\ rpc = "launch" /\ available > 0 /\ Waiting > 0
    /\ LET found == {i \in DOMAIN ScanOrder : HasCapacity(ScanOrder[i])}
       IN  \/ /\ found = {} /\ rpc' = "spins"
              /\ UNCHANGED <<totalPendingWeights, queue, waitingPriorities, user, iter, sent>>
           \/ /\ found # {} /\ rpc' = "sent"
              /\ LET p == ScanOrder[Min(found)]
                     i == CHOOSE j \in DOMAIN waitingPriorities : waitingPriorities[j] = p
                     emptied == Len(queue[p]) = 1
                 IN  /\ sent' = Head(queue[p])
                     /\ user' = [user EXCEPT ![Head(queue[p])] = "holds"]
                     /\ queue' = [queue EXCEPT ![p] = Tail(@)]
                     /\ totalPendingWeights' = totalPendingWeights - IF emptied THEN weight[p] ELSE 0
                     /\ waitingPriorities' = IF emptied THEN RemoveAt(waitingPriorities, i)
                                             ELSE waitingPriorities
                     /\ iter' = IF ~emptied THEN p
                                ELSE IF i < Len(waitingPriorities) THEN waitingPriorities[i + 1] ELSE End
    /\ UNCHANGED <<weight, concurrency, available, runners, killed, halted, nested>>

\* Back from the continuation: halted meanwhile, released meanwhile, or held.
Sent ==
    /\ rpc = "sent"
    /\ \/ /\ halted /\ rpc' = "stopped"
          /\ user' = [u \in User |-> IF u = sent THEN "lost" ELSE user[u]]
          /\ UNCHANGED <<available, runners>>
       \/ /\ ~halted /\ rpc' = "launch" /\ sent # Nobody /\ AddRunner(Class[sent])
          /\ UNCHANGED user
       \/ /\ ~halted /\ rpc' = "launch" /\ sent = Nobody
          /\ UNCHANGED <<available, runners, user>>
    /\ sent' = Nobody
    /\ UNCHANGED <<weight, concurrency, totalPendingWeights, queue, waitingPriorities, killed, halted, iter, nested>>

RunnerWaits ==
    /\ rpc = "launch" /\ (available <= 0 \/ Waiting = 0)
    /\ rpc' = "wait"
    /\ UNCHANGED <<weight, concurrency, available, totalPendingWeights, queue, runners,
                   waitingPriorities, killed, halted, user, iter, sent, nested>>

-----------------------------------------------------------------------------
(* halt() and kill()                                                       *)

\* The runner is cancelled; inside a continuation it goes on to Sent first.
StopRunner ==
    /\ halted' = TRUE
    /\ available' = available - concurrency /\ concurrency' = 0
    /\ waitingPriorities' = <<>>
    /\ rpc' = IF rpc = "wait" THEN "stopped" ELSE rpc

Halt ==
    /\ CallsAllowed /\ ~halted
    /\ StopRunner
    /\ UNCHANGED <<weight, totalPendingWeights, queue, runners, killed, user, iter, sent, nested>>

KillLock ==
    /\ CallsAllowed /\ ~killed
    /\ StopRunner
    /\ killed' = TRUE /\ queue' = [p \in Priority |-> <<>>]
    /\ user' = [u \in User |-> IF user[u] = "waits" THEN "out" ELSE user[u]]
    /\ UNCHANGED <<weight, totalPendingWeights, runners, iter, sent, nested>>

PmlCall(u) == LockNow(u) \/ LockLater(u) \/ ReleaseSlot(u) \/ ReleaseUncounted(u)
Runner == Launch \/ Sent \/ RunnerWaits
PmlNext == (\E u \in User : PmlCall(u)) \/ Runner \/ Halt \/ KillLock

\* runner() is run to its next wait, and every holder releases in the end:
\* strongly fair, as nobody can release while runner() is between two waits.
PmlFairness ==
    WF_pmlVars(Runner) /\ \A u \in User : SF_pmlVars(ReleaseSlot(u) \/ ReleaseUncounted(u))

PmlSpec == PmlInit /\ [][PmlNext]_pmlVars /\ PmlFairness

-----------------------------------------------------------------------------
(* Properties                                                              *)

Slots == MapThenSumSet(LAMBDA p : runners[p], Priority)
Holders == {u \in User : user[u] = "holds"}

PmlTypeOK ==
    /\ weight \in Weights /\ concurrency \in {0, Concurrency}
    /\ available \in Int /\ totalPendingWeights \in Nat
    /\ queue \in [Priority -> Seq(User)] /\ runners \in [Priority -> Nat]
    /\ waitingPriorities \in Seq(Priority) /\ killed \in BOOLEAN /\ halted \in BOOLEAN
    /\ user \in [User -> {"out", "waits", "holds", "lost"}]
    /\ rpc \in {"wait", "launch", "sent", "spins", "stopped"}
    /\ iter \in Priority \union {End} /\ sent \in User \union {Nobody} /\ nested \in BOOLEAN

\* The counters agree with what they count, through every re-entrant call:
\* free and used slots add up, a slot for every holder but the one whose grant
\* is under way, and the total weight is that of the priorities with waiters.
SlotsAccounted ==
    /\ available + Slots = concurrency
    /\ \A p \in Priority : runners[p] = Cardinality({u \in Holders \ {sent} : Class[u] = p})
    /\ ~halted => /\ totalPendingWeights
                       = MapThenSumSet(LAMBDA p : IF queue[p] = <<>> THEN 0 ELSE weight[p], Priority)
                  /\ {waitingPriorities[i] : i \in DOMAIN waitingPriorities}
                       = {p \in Priority : queue[p] # <<>>}
                  /\ IsInjective(waitingPriorities)

\* "Find the next priority with waiters and capacity.  There must be at least
\* one": the scan never goes round in vain, because the capacities, rounded up,
\* add up to at least the slots.
ScanFinds == rpc # "spins"

\* "A multi user lock with a concurrent holder limit": there are never more
\* holders than slots, but for one more after a continuation has locked again,
\* since its own slot is counted only when it is done.
HolderLimit ==
    Cardinality(Holders \ {sent}) <= Concurrency + (IF nested THEN 1 ELSE 0)

\* No slot is free while a user waits, unless the runner is at work: no release
\* goes unnoticed, though a trigger that finds no runner waiting is lost.
NoIdleSlot == rpc = "wait" => available <= 0 \/ Waiting = 0

\* A priority whose share the others cannot fill even when rounded up.
Guaranteed(p) ==
    \A others \in SUBSET (Priority \ {p}) :
        LET total == weight[p] + MapThenSumSet(LAMBDA q : weight[q], others)
        IN  MapThenSumSet(LAMBDA q : Ceiling(weight[q] * Concurrency, total), others) < Concurrency

\* A waiter of such a priority gets a slot, unless the lock is halted or users
\* for ever release inside the continuation that got them the lock; a waiter of
\* any other priority may starve.
ShareIsServed ==
    \/ []<>(rpc = "sent" /\ sent = Nobody)
    \/ \A u \in User : (user[u] = "waits" /\ Guaranteed(Class[u])) ~> (user[u] # "waits" \/ halted)
=============================================================================
