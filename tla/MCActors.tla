------------------------------ MODULE MCActors ------------------------------
(***************************************************************************)
(* For TLC, one of the things Flow actors do on one thread: the fanout     *)
(* server's socket loop, the load client's players, its coordinator, or    *)
(* the locks.  Of four clients of a lock the last calls takeUpTo, for one, *)
(* two or three permits; the others take one each, or one of them as many  *)
(* as there are or more.  Two priorities have equal or unequal weight, and *)
(* one has enough users to keep both slots and its queue busy.  A ramp     *)
(* from 5 players has two rounds, one from 6 has shard servers or ignores  *)
(* SIGCHLD.                                                                *)
(***************************************************************************)
EXTENDS FanoutLoop, LoadClient, Ramp, FlowLocks

VARIABLE actor

actorVars == <<actor, vars, clientVars, rampVars, lockVars>>

MCAmounts == {[c \in Client |-> IF c = 4 THEN 2 ELSE 1],
              [c \in Client |-> IF c = 3 THEN 2 ELSE 1],
              [c \in Client |-> IF c \in {3, 4} THEN 3 ELSE 1]}
MCClass == [u \in User |-> IF u <= 3 THEN 0 ELSE 1]
MCWeights == {[p \in Priority |-> 1], [p \in Priority |-> IF p = 0 THEN 3 ELSE 1]}

\* A behaviour's parameters vary only for the actor it is about.
MCInit ==
    /\ actor \in {"server", "players", "ramp", "lock"}
    /\ Init /\ ClientInit /\ RampInit /\ LocksInit
    /\ actor # "players" => mode = "many"
    /\ actor # "ramp" => playerCount = 0
    /\ playerCount # 6 => shardCount = 1 /\ ~autoReap
    /\ actor # "lock" => lock = "FlowLock"
    /\ lock # "FlowLock" \/ actor # "lock" => amount[3] = 1
    /\ lock # "PriorityMultiLock" => weight = [p \in Priority |-> 1]

Server  == actor = "server" /\ Next /\ UNCHANGED <<actor, clientVars, rampVars, lockVars>>
Players == actor = "players" /\ ClientNext /\ UNCHANGED <<actor, vars, rampVars, lockVars>>
Ramping == actor = "ramp" /\ RampNext /\ UNCHANGED <<actor, vars, clientVars, lockVars>>
Locking == actor = "lock" /\ LocksNext /\ UNCHANGED <<actor, vars, clientVars, rampVars>>

\* What is fair and enabled in the initial states is limited to the behaviours
\* it belongs to.
MCFairness ==
    /\ WF_vars(actor = "server" /\ Timer) /\ EventFairness
    /\ WF_clientVars(actor = "players" /\ Running) /\ WF_clientVars(actor = "players" /\ DeadlinePasses)
    /\ WF_rampVars(actor = "ramp" /\ Coordinator) /\ WF_rampVars(RoundOverdue)
    /\ FlowLockFairness /\ BoundedFairness /\ PmlFairness

MCSpec == MCInit /\ [][Server \/ Players \/ Ramping \/ Locking]_actorVars /\ MCFairness
=============================================================================
