-------------------------------- MODULE Net2 --------------------------------
(***************************************************************************)
(* Flow's run loop, Net2::run (flow/Net2.cpp), over its TaskQueue          *)
(* (flow/include/flow/TaskQueue.h) and the ThreadSafeQueue inside it.      *)
(* Other threads hand over tasks with onMainThread; the loop sleeps in the *)
(* reactor when canSleep says it may, and a producer that push() told to   *)
(* do so wakes it.                                                         *)
(*                                                                         *)
(* Time is abstract: a timer becomes due at any moment.  A timer is always *)
(* set (logTimeOffset renews its own), so a sleep always has a timeout,    *)
(* which nothing here relies on.                                           *)
(***************************************************************************)
EXTENDS ThreadSafeQueue

CONSTANTS Local,       \* tasks that tasks issue on the main thread
          StopTask,    \* the task that runs stopImmediately
          High         \* the tasks of the higher of two priorities

Task == Item \union Local

ASSUME TaskAssumption == StopTask \in Task /\ High \subseteq Task /\ Local \intersect Node = {}

VARIABLES
    npc,         \* where run() is
    admitted,    \* threads in onMainThread that saw ~stopped
    posted,      \* completions posted to the reactor and not yet run
    stopped,
    ready, timers, due,    \* TaskQueue: ready, timers, and the timers that are due
    stamp, tasksIssued,    \* the number that orders tasks of one priority
    callee,                \* the local task an onMainThread on this thread adds
    ran                    \* history: the tasks run

loopVars == <<npc, admitted, posted, stopped, ready, timers, due, stamp, tasksIssued, callee, ran>>
vars == <<queueVars, loopVars>>

Init ==
    /\ QueueInit
    /\ npc = "top" /\ admitted = {} /\ posted = 0 /\ stopped = FALSE
    /\ ready = {} /\ timers = {} /\ due = {}
    /\ stamp = [k \in Task |-> 0] /\ tasksIssued = 0
    /\ callee = Null /\ ran = {}

-----------------------------------------------------------------------------
(* The other threads, and time                                             *)

OnMainThread(t) ==
    /\ ~stopped /\ t \notin admitted /\ node[t] = Null /\ t \notin mustWake
    /\ admitted' = admitted \union {t}
    /\ UNCHANGED <<queueVars, npc, posted, stopped, ready, timers, due, stamp, tasksIssued, callee, ran>>

AddReadyThreadSafe(t) ==
    /\ t \in admitted /\ \E n \in Item : Push(t, n)
    /\ admitted' = admitted \ {t}
    /\ UNCHANGED <<npc, posted, stopped, ready, timers, due, stamp, tasksIssued, callee, ran>>

FinishPush(t) == Link(t) /\ UNCHANGED loopVars

\* reactor.wake(), called when push() returned true.
WakeReactor(t) ==
    /\ Woken(t)
    /\ posted' = posted + 1
    /\ UNCHANGED <<npc, admitted, stopped, ready, timers, due, stamp, tasksIssued, callee, ran>>

TimerDue ==
    /\ \E k \in timers \ due : due' = due \union {k}
    /\ UNCHANGED <<queueVars, npc, admitted, posted, stopped, ready, timers, stamp, tasksIssued, callee, ran>>

-----------------------------------------------------------------------------
(* The top of the loop                                                     *)

Exit ==
    /\ npc = "top" /\ stopped
    /\ npc' = "exited"
    /\ UNCHANGED <<queueVars, admitted, posted, stopped, ready, timers, due, stamp, tasksIssued, callee, ran>>

\* TaskQueue::canSleep looks at the thread-safe queue only if nothing is ready.
Top ==
    /\ npc = "top" /\ ~stopped
    /\ \/ /\ ready # {} /\ npc' = "react" /\ UNCHANGED queueVars
       \/ /\ ready = {} /\ npc' = "cansleep" /\ CanSleep
    /\ UNCHANGED <<admitted, posted, stopped, ready, timers, due, stamp, tasksIssued, callee, ran>>

\* Faulty Sleep: the answer of canSleep is ignored.
SleepAnyway ==
    /\ npc = "cansleep" /\ cpc = "idle"
    /\ npc' = IF due = {} THEN "asleep" ELSE "react"
    /\ UNCHANGED <<queueVars, admitted, posted, stopped, ready, timers, due, stamp, tasksIssued, callee, ran>>

Sleep ==
    /\ npc = "cansleep" /\ cpc = "idle"
    /\ npc' = IF result = Sleeping /\ due = {} THEN "asleep" ELSE "react"
    /\ UNCHANGED <<queueVars, admitted, posted, stopped, ready, timers, due, stamp, tasksIssued, callee, ran>>

\* ios.run_one() returns with a posted completion or at the first timer.
Awake ==
    /\ npc = "asleep"
    /\ \/ posted > 0 /\ posted' = posted - 1
       \/ due # {} /\ UNCHANGED posted
    /\ npc' = "react"
    /\ UNCHANGED <<queueVars, admitted, stopped, ready, timers, due, stamp, tasksIssued, callee, ran>>

\* The renewed timer of logTimeOffset ends the sleep.
Timeout ==
    /\ npc = "asleep"
    /\ npc' = "react"
    /\ UNCHANGED <<queueVars, admitted, posted, stopped, ready, timers, due, stamp, tasksIssued, callee, ran>>

\* reactor.react() runs what is posted, then processReadyTimers, and
\* processThreadReady begins.
React ==
    /\ npc = "react"
    /\ posted' = 0
    /\ ready' = ready \union due /\ timers' = timers \ due /\ due' = {}
    /\ Pop /\ npc' = "drain"
    /\ UNCHANGED <<admitted, stopped, stamp, tasksIssued, callee, ran>>

-----------------------------------------------------------------------------
(* processThreadReady, from the loop, from check_yield and from            *)
(* addReadyThreadSafe on the main thread                                   *)

AddReady(k) ==
    /\ ready' = ready \union {k}
    /\ tasksIssued' = tasksIssued + 1 /\ stamp' = [stamp EXCEPT ![k] = tasksIssued + 1]

QueueAccess == Access /\ UNCHANGED loopVars

TakeReady ==
    /\ npc \in {"drain", "yield", "local"} /\ cpc = "idle" /\ result # Null
    /\ AddReady(result) /\ Pop
    /\ UNCHANGED <<npc, admitted, posted, stopped, timers, due, callee, ran>>

\* Nothing more to take.  check_yield may then break the inner loop.
Drained ==
    /\ cpc = "idle" /\ result = Null
    /\ \/ npc = "drain" /\ npc' = "task" /\ UNCHANGED <<ready, stamp, tasksIssued, callee>>
       \/ npc = "yield" /\ npc' \in {"task", "top"} /\ UNCHANGED <<ready, stamp, tasksIssued, callee>>
       \/ npc = "local" /\ npc' = "running" /\ AddReady(callee) /\ callee' = Null
    /\ UNCHANGED <<queueVars, admitted, posted, stopped, timers, due, ran>>

-----------------------------------------------------------------------------
(* The tasks                                                               *)

NoTask ==
    /\ npc = "task" /\ ready = {}
    /\ npc' = "top"
    /\ UNCHANGED <<queueVars, admitted, posted, stopped, ready, timers, due, stamp, tasksIssued, callee, ran>>

\* Faulty order: the newest of the tasks with the highest priority first.
NewestFirst(j, k) ==
    \/ j \in High /\ k \notin High
    \/ (j \in High <=> k \in High) /\ stamp[j] > stamp[k]

\* getFIFOPriority: (taskId << 32) - tasksIssued, largest first.
Before(j, k) ==
    \/ j \in High /\ k \notin High
    \/ (j \in High <=> k \in High) /\ stamp[j] < stamp[k]

\* stopImmediately drops what is ready and the timers.
RunTask ==
    /\ npc = "task"
    /\ \E k \in ready :
           /\ \A j \in ready \ {k} : Before(k, j)
           /\ ran' = ran \union {k}
           /\ stopped' = (stopped \/ k = StopTask)
           /\ ready' = IF k = StopTask THEN {} ELSE ready \ {k}
           /\ timers' = IF k = StopTask THEN {} ELSE timers
           /\ due' = IF k = StopTask THEN {} ELSE due
    /\ npc' = "running"
    /\ UNCHANGED <<queueVars, admitted, posted, stamp, tasksIssued, callee>>

\* The task issues another: delay(0) and yield(), delay(s), onMainThread.
Unissued == {k \in Local : stamp[k] = 0 /\ callee # k}

IssueReady ==
    /\ npc = "running" /\ \E k \in Unissued : AddReady(k)
    /\ UNCHANGED <<queueVars, npc, admitted, posted, stopped, timers, due, callee, ran>>

IssueTimer ==
    /\ npc = "running"
    /\ \E k \in Unissued :
           /\ timers' = timers \union {k}
           /\ tasksIssued' = tasksIssued + 1 /\ stamp' = [stamp EXCEPT ![k] = tasksIssued + 1]
    /\ UNCHANGED <<queueVars, npc, admitted, posted, stopped, ready, due, callee, ran>>

IssueOnMainThread ==
    /\ npc = "running" /\ ~stopped
    /\ \E k \in Unissued : callee' = k
    /\ Pop /\ npc' = "local"
    /\ UNCHANGED <<admitted, posted, stopped, ready, timers, due, stamp, tasksIssued, ran>>

\* The task returns; every so often the reactor is polled; check_yield.
EndTask ==
    /\ npc = "running"
    /\ posted' \in {posted, 0}
    /\ Pop /\ npc' = "yield"
    /\ UNCHANGED <<admitted, stopped, ready, timers, due, stamp, tasksIssued, callee, ran>>

-----------------------------------------------------------------------------
Threads ==
    \E t \in Thread : OnMainThread(t) \/ AddReadyThreadSafe(t) \/ FinishPush(t) \/ WakeReactor(t)

\* The main thread, its sleep apart.
Main ==
    \/ Exit \/ Top \/ Sleep \/ React \/ QueueAccess \/ TakeReady \/ Drained
    \/ NoTask \/ RunTask \/ IssueReady \/ IssueTimer \/ IssueOnMainThread \/ EndTask

Next == Threads \/ TimerDue \/ Main \/ Awake \/ Timeout

\* A posted completion or a due timer ends run_one(); a timer becomes due.
SleepFairness == WF_vars(Awake) /\ WF_vars(TimerDue)

\* The operating system runs every thread.
ThreadFairness ==
    \A t \in Thread : WF_vars(AddReadyThreadSafe(t)) /\ WF_vars(FinishPush(t)) /\ WF_vars(WakeReactor(t))

Spec == Init /\ [][Next]_vars /\ WF_vars(Main) /\ SleepFairness /\ ThreadFairness

-----------------------------------------------------------------------------
(* Properties                                                              *)

\* Every variable keeps its type, the atomics and locals of the queue included:
\* popNode never takes a null pointer for the new tail.
TypeOK ==
    /\ QueueTypeOK
    /\ npc \in {"top", "cansleep", "asleep", "react", "drain", "task", "running", "yield", "local", "exited"}
    /\ admitted \subseteq Thread /\ posted \in Nat /\ stopped \in BOOLEAN
    /\ ready \subseteq Task /\ timers \subseteq Task /\ due \subseteq timers
    /\ stamp \in [Task -> Nat] /\ tasksIssued \in Nat
    /\ callee \in Local \union {Null} /\ ran \subseteq Task

\* No wake-up is lost: while the loop sleeps and an element is in the queue, a
\* completion is posted, or a producer is on its way to post one.
NoLostWakeup ==
    npc = "asleep" /\ InList \intersect Item # {} =>
        \/ posted > 0 \/ mustWake # {}
        \/ \E t \in Linking : prev[t] = Sleeping

\* A task that ran is nowhere to be run again: not ready, not a timer, not in
\* the list.
RunsOnce == ran \intersect (ready \union timers \union InList) = {}

\* Two tasks of one priority that threads handed over run in the order of
\* their pushes, however the drains, the yields and the sleeps fall (until
\* stopImmediately drops the ready ones).
HandedOverInOrder ==
    [][\A m, n \in Item :
           /\ n \in ran' \ ran /\ ~stopped
           /\ ticket[m] \in 1 .. ticket[n] - 1 /\ (m \in High <=> n \in High)
           => m \in ran]_vars

\* A task that a thread handed over is run, without the help of a timeout,
\* unless the loop is stopped; and a loop that is stopped returns from run().
LoopProgresses ==
    /\ \A n \in Item : ticket[n] > 0 ~> (n \in ran \/ stopped)
    /\ stopped ~> npc = "exited"

\* The elements in the list, and those popped.
Channel == INSTANCE TaskChannel WITH
    Element <- Item,
    inFlight <- SelectSeq(chain, LAMBDA n : n \in Item),
    received <- {n \in Item : ticket[n] \in 1 .. last}

\* The linked list, its stub and its sleeping node implement a plain channel.
IsChannel == Channel!Spec
=============================================================================
