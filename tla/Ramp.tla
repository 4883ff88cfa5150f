-------------------------------- MODULE Ramp --------------------------------
(***************************************************************************)
(* The load client's coordinator                                           *)
(* (flow/examples/fanout_load_client_main.actor.cpp): runCoordinator       *)
(* doubles the number of players while a round goes well, and runRound     *)
(* runs a round with one worker process per player.                        *)
(*                                                                         *)
(* Workers are interchangeable and only counted.  A pass over the children *)
(* is one step: a worker that exits during one may as well have exited     *)
(* before it or after it.  Where the coordinator was started with SIGCHLD  *)
(* ignored, the system reaps the workers by itself, and waitpid fails for  *)
(* one that has exited: pollChild then finds the status still 0.           *)
(***************************************************************************)
EXTENDS Integers

CONSTANTS RampStarts,    \* values of rampStart
          MaxPlayers,
          ShardCounts    \* values of shardCount

ASSUME RampAssumption == RampStarts \subseteq Nat /\ MaxPlayers \in Nat /\ ShardCounts \subseteq Nat

VARIABLES
    stage,          \* where the coordinator is
    shardCount, shards,    \* shard servers asked for, and the ports there are
    servers,        \* shard servers that run
    playerCount, lastGood,
    workers,        \* [running, zero, other: exited and not reaped]
    unborn,         \* spawns that failed
    succeeded,      \* workers a poll reaped and found to have exited with 0
    overdue,        \* deadlineSeconds + 1 have passed
    autoReap,       \* SIGCHLD is ignored
    zeros,          \* history: workers of the round that have exited with 0
    rounds          \* history: zeros at the end of each round, by its players

rampVars == <<stage, shardCount, shards, servers, playerCount, lastGood, workers,
              unborn, succeeded, overdue, autoReap, zeros, rounds>>
settings == <<shardCount, autoReap>>
roundVars == <<workers, unborn, succeeded, overdue, zeros>>

NoWorkers == [running |-> 0, zero |-> 0, other |-> 0]
Unreaped == workers.running + workers.zero + workers.other

RampInit ==
    /\ stage = "shards" /\ shardCount \in ShardCounts
    /\ shards = 0 /\ servers = 0
    /\ playerCount \in RampStarts /\ lastGood = 0
    /\ workers = NoWorkers /\ unborn = 0 /\ succeeded = 0
    /\ autoReap \in BOOLEAN
    /\ overdue = FALSE /\ zeros = 0 /\ rounds = [n \in 0 .. MaxPlayers |-> -1]

\* A shard server that cannot be spawned is left out.
SpawnShards ==
    /\ stage = "shards" /\ stage' = "ramp"
    /\ \/ shardCount <= 1 /\ shards' = 1 /\ UNCHANGED servers
       \/ shardCount > 1 /\ servers' \in 0 .. shardCount /\ shards' = servers'
    /\ UNCHANGED <<settings, playerCount, lastGood, roundVars, rounds>>

\* The loop of runCoordinator.
StartRound ==
    /\ stage = "ramp" /\ playerCount <= MaxPlayers
    /\ stage' = "spawn"
    /\ workers' = NoWorkers /\ unborn' = 0 /\ succeeded' = 0 /\ overdue' = FALSE /\ zeros' = 0
    /\ UNCHANGED <<settings, shards, servers, playerCount, lastGood, rounds>>

-----------------------------------------------------------------------------
(* runRound                                                                *)

\* i % shardPorts.size(): without a shard, a division by zero.
SpawnWorker ==
    /\ stage = "spawn" /\ Unreaped + unborn < playerCount
    /\ \/ shards = 0 /\ stage' = "crashed" /\ UNCHANGED <<workers, unborn>>
       \/ /\ shards > 0 /\ UNCHANGED stage
          /\ \/ workers' = [workers EXCEPT !.running = @ + 1] /\ UNCHANGED unborn
             \/ unborn' = unborn + 1 /\ UNCHANGED workers
    /\ UNCHANGED <<settings, shards, servers, playerCount, lastGood, succeeded, overdue, zeros, rounds>>

Spawned ==
    /\ stage = "spawn" /\ Unreaped + unborn = playerCount
    /\ stage' = "poll"
    /\ UNCHANGED <<settings, shards, servers, playerCount, lastGood, roundVars, rounds>>

\* Faulty count: the exit code is not looked at.
ExitedAtAll == workers.zero + workers.other

\* pollChild: the workers that have exited and, as far as waitpid says, with 0.
ExitedZero == workers.zero + IF autoReap THEN workers.other ELSE 0

\* One pass over the children; then a sleep, unless all have been reaped.
PollAll ==
    /\ stage = "poll"
    /\ succeeded' = succeeded + ExitedZero
    /\ workers' = [NoWorkers EXCEPT !.running = workers.running]
    /\ stage' = IF workers.running = 0 THEN "tally" ELSE "sleep"
    /\ UNCHANGED <<settings, shards, servers, playerCount, lastGood, unborn, overdue, zeros, rounds>>

\* Faulty wake-up: the deadline is not looked at.
PollForever ==
    /\ stage = "sleep" /\ stage' = "poll"
    /\ UNCHANGED <<settings, shards, servers, playerCount, lastGood, roundVars, rounds>>

\* After the sleep the deadline is looked at.
PollAgain ==
    /\ stage = "sleep" /\ stage' = IF overdue THEN "tally" ELSE "poll"
    /\ UNCHANGED <<settings, shards, servers, playerCount, lastGood, roundVars, rounds>>

\* Workers that have not been reaped are killed, and waited for.
Tally ==
    /\ stage = "tally" /\ stage' = "decide"
    /\ workers' = NoWorkers
    /\ rounds' = [rounds EXCEPT ![playerCount] = zeros]
    /\ UNCHANGED <<settings, shards, servers, playerCount, lastGood, unborn, succeeded, overdue, zeros>>

-----------------------------------------------------------------------------
\* failureRate > 0.1
Fails == 10 * (playerCount - succeeded) > playerCount

Decide ==
    /\ stage = "decide"
    /\ \/ Fails /\ stage' = "end" /\ UNCHANGED <<playerCount, lastGood>>
       \/ /\ ~Fails /\ stage' = "ramp"
          /\ lastGood' = playerCount /\ playerCount' = 2 * playerCount
    /\ UNCHANGED <<settings, shards, servers, roundVars, rounds>>

RampOver ==
    /\ stage = "ramp" /\ playerCount > MaxPlayers
    /\ stage' = "end"
    /\ UNCHANGED <<settings, shards, servers, playerCount, lastGood, roundVars, rounds>>

KillShards ==
    /\ stage = "end" /\ stage' = "done" /\ servers' = 0
    /\ UNCHANGED <<settings, shards, playerCount, lastGood, roundVars, rounds>>

\* A worker exits, with whatever code; it may also hang.
WorkerExits ==
    /\ workers.running > 0 /\ stage # "crashed"
    /\ \/ workers' = [workers EXCEPT !.running = @ - 1, !.zero = @ + 1] /\ zeros' = zeros + 1
       \/ workers' = [workers EXCEPT !.running = @ - 1, !.other = @ + 1] /\ UNCHANGED zeros
    /\ UNCHANGED <<stage, settings, shards, servers, playerCount, lastGood, unborn, succeeded, overdue, rounds>>

RoundOverdue ==
    /\ stage \in {"poll", "sleep"} /\ ~overdue /\ overdue' = TRUE
    /\ UNCHANGED <<stage, settings, shards, servers, playerCount, lastGood, workers, unborn, succeeded, zeros, rounds>>

Coordinator ==
    \/ SpawnShards \/ StartRound \/ SpawnWorker \/ Spawned \/ PollAll \/ PollAgain
    \/ Tally \/ Decide \/ RampOver \/ KillShards

RampNext == Coordinator \/ WorkerExits \/ RoundOverdue

\* The coordinator runs and time passes; workers promise nothing.
RampFairness == WF_rampVars(Coordinator) /\ WF_rampVars(RoundOverdue)

RampSpec == RampInit /\ [][RampNext]_rampVars /\ RampFairness

-----------------------------------------------------------------------------
(* Properties                                                              *)

\* "max sustained concurrent players": of the players of the round the ramp
\* reports, and of every round before it, at least nine in ten exited with 0,
\* whatever the passes over the children, the deadline and the kills left out
\* or counted.  With SIGCHLD ignored there is no such promise.
LastGoodSustained ==
    /\ lastGood > 0 => rounds[lastGood] >= 0
    /\ ~autoReap => \A n \in 1 .. lastGood : rounds[n] >= 0 => 10 * rounds[n] >= 9 * n

\* "one hung connection can't hang the whole ramp": it ends, with no shard server
\* and no worker left, not even as a zombie, unless no shard server could be
\* spawned, or it starts with no players.
RampEnds ==
    playerCount > 0 ~> (stage = "done" /\ Unreaped = 0 /\ servers = 0) \/ stage = "crashed"
=============================================================================
