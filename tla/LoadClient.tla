----------------------------- MODULE LoadClient -----------------------------
(***************************************************************************)
(* The load client's simulated players                                     *)
(* (flow/examples/fanout_load_client.actor.cpp): runOnePlayer, a process   *)
(* per player, and runManyPlayers, many connections on one socket; each    *)
(* with the caller that turns its result into an exit code                 *)
(* (flow/examples/fanout_load_client_main.actor.cpp).  A step lasts from   *)
(* one wait() to the next.                                                 *)
(*                                                                         *)
(* picoquic is external: it reports a connection ready when it takes a     *)
(* datagram, and closed then or when it prepares a packet.  Payloads are   *)
(* left out: a tick is counted when it is queued.                          *)
(***************************************************************************)
EXTENDS Integers, FiniteSets

CONSTANTS Player, Ticks,
          MaxPackets    \* bound: packets picoquic prepares for one event

ASSUME ClientAssumption == Ticks \in Nat \ {0} /\ MaxPackets \in Nat

VARIABLES
    mode,       \* --worker: "one"; --multi: "many"
    lpc,        \* where the actor is
    player,     \* PlayerCtx.state
    queued,     \* ticks queued for each player
    open,       \* players whose connection picoquic knows
    read,       \* state of recvF
    packets,    \* packets picoquic still has ready
    late,       \* deadlineSeconds have passed
    code        \* exit code of the process

clientVars == <<mode, lpc, player, queued, open, read, packets, late, code>>

ClientInit ==
    /\ mode \in {"one", "many"} /\ lpc = "create"
    /\ player \in {[p \in S |-> "Connecting"] : S \in IF mode = "one" THEN {{p} : p \in Player} ELSE {Player}}
    /\ queued = [p \in Player |-> 0] /\ open = {}
    /\ read = "none" /\ packets = 0 /\ late = FALSE /\ code = -1

-----------------------------------------------------------------------------
(* loadClientStreamCallback                                                *)

\* sendAllTicks, if the player has not sent them yet.
CallbackReady(p) ==
    /\ p \in open
    /\ player' = [player EXCEPT ![p] = IF @ = "Connecting" THEN "Done" ELSE @]
    /\ queued' = [queued EXCEPT ![p] = IF player[p] = "Connecting" THEN @ + Ticks ELSE @]
    /\ UNCHANGED open

\* Faulty close: a player that is done fails, too.
CallbackCloseAny(p) ==
    /\ p \in open /\ open' = open \ {p}
    /\ player' = [player EXCEPT ![p] = "Failed"]
    /\ UNCHANGED queued

CallbackClose(p) ==
    /\ p \in open /\ open' = open \ {p}
    /\ player' = [player EXCEPT ![p] = IF @ # "Done" THEN "Failed" ELSE @]
    /\ UNCHANGED queued

Callback == \E p \in open : CallbackReady(p) \/ CallbackClose(p)
NoCallback == UNCHANGED <<player, queued, open>>

-----------------------------------------------------------------------------
(* The actors                                                              *)

\* runOnePlayer gives up when its connection cannot be created; runManyPlayers
\* goes on with those that can.
Create ==
    /\ lpc = "create"
    /\ \/ lpc' = "threw" /\ UNCHANGED <<open, read>>
       \/ /\ open' \in IF mode = "one" THEN {DOMAIN player} ELSE SUBSET Player
          /\ lpc' = "top" /\ read' = "pending"
    /\ UNCHANGED <<mode, player, queued, packets, late, code>>

Settled == \A p \in DOMAIN player : player[p] \in {"Done", "Failed"}

\* Faulty top of the loop: the deadline is not looked at.
TopNoDeadline ==
    /\ lpc = "top"
    /\ lpc' = IF Settled THEN "returned" ELSE IF mode = "one" THEN "choose" ELSE "drain"
    /\ UNCHANGED <<mode, player, queued, open, read, packets, late, code>>

\* The top of the loop; runManyPlayers drains before it waits.
TopOfLoop ==
    /\ lpc = "top"
    /\ lpc' = IF Settled \/ late THEN "returned" ELSE IF mode = "one" THEN "choose" ELSE "drain"
    /\ UNCHANGED <<mode, player, queued, open, read, packets, late, code>>

AfterWait == IF mode = "one" THEN "drain" ELSE "top"

\* "choose" has a timer, "read" is runManyPlayers' wait without one.
TakeRead ==
    /\ lpc \in {"choose", "read"} /\ read # "pending"
    /\ \/ read = "datagram" /\ (Callback \/ NoCallback) /\ packets' \in packets .. MaxPackets
       \/ read = "error" /\ NoCallback /\ UNCHANGED packets
    /\ lpc' = AfterWait /\ read' = "pending"
    /\ UNCHANGED <<mode, late, code>>

TimerFires ==
    /\ lpc = "choose" /\ lpc' = AfterWait
    /\ packets' \in packets .. MaxPackets
    /\ UNCHANGED <<mode, player, queued, open, read, late, code>>

\* picoquic_prepare_next_packet, where a connection may time out; sendTo.
PreparePacket ==
    /\ lpc = "drain" /\ packets > 0
    /\ packets' = packets - 1 /\ lpc' = "sending"
    /\ NoCallback \/ \E p \in open : CallbackClose(p)
    /\ UNCHANGED <<mode, read, late, code>>

\* A send error is only traced.
PacketSent ==
    /\ lpc = "sending" /\ lpc' = "drain"
    /\ UNCHANGED <<mode, player, queued, open, read, packets, late, code>>

\* No packet, or an error: runManyPlayers waits with a timer only if the next
\* wake-up is in the future.
NoPacket ==
    /\ lpc = "drain"
    /\ lpc' \in IF mode = "one" THEN {"top"} ELSE {"choose", "read"}
    /\ packets' = 0
    /\ NoCallback \/ \E p \in open : CallbackClose(p)
    /\ UNCHANGED <<mode, read, late, code>>

\* runWorkerThenStop, runMultiThenStop and the exit.
ExitWith ==
    /\ lpc \in {"returned", "threw"} /\ lpc' = "exited"
    /\ code' = IF lpc = "returned" /\ \A p \in DOMAIN player : player[p] = "Done" THEN 0 ELSE 1
    /\ UNCHANGED <<mode, player, queued, open, read, packets, late>>

-----------------------------------------------------------------------------
\* The socket: a datagram arrives, or an error.
ReadResolves ==
    /\ read = "pending" /\ lpc # "exited" /\ read' \in {"datagram", "error"}
    /\ UNCHANGED <<mode, lpc, player, queued, open, packets, late, code>>

DeadlinePasses ==
    /\ ~late /\ lpc # "exited" /\ late' = TRUE
    /\ UNCHANGED <<mode, lpc, player, queued, open, read, packets, code>>

Running ==
    \/ Create \/ TopOfLoop \/ TakeRead \/ TimerFires
    \/ PreparePacket \/ PacketSent \/ NoPacket \/ ExitWith

ClientNext == Running \/ ReadResolves \/ DeadlinePasses

\* The reactor runs what is due, timers included; sends complete; time passes.
ClientFairness == WF_clientVars(Running) /\ WF_clientVars(DeadlinePasses)

ClientSpec == ClientInit /\ [][ClientNext]_clientVars /\ ClientFairness

-----------------------------------------------------------------------------
(* Properties                                                              *)

\* "exits 0 if n == playerCount, 1 otherwise", the n that queued all their
\* ticks: whether connections fail to be created, become ready twice, close
\* after their ticks are queued, or become ready with the deadline past.
ExitMeansQueued ==
    /\ \A p \in Player : queued[p] \in {0, Ticks}
    /\ lpc = "exited" => (code = 0 <=> \A p \in DOMAIN player : queued[p] = Ticks)

\* Once in its loop, the process exits by the deadline, even if no datagram
\* ever comes; with many players on one socket it does unless the wait without
\* a timer gets none for ever.
ClientEnds ==
    []<>(lpc # "read" \/ read # "pending") => (lpc = "top" ~> lpc = "exited")
=============================================================================
