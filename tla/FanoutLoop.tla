----------------------------- MODULE FanoutLoop -----------------------------
(***************************************************************************)
(* The socket loop of fanoutServer                                         *)
(* (flow/examples/picoquic_fanout_server.actor.cpp) and the supervisor     *)
(* runServerOrReport (flow/examples/fanout_server_main.actor.cpp).  The    *)
(* actor waits for a datagram or for picoquic's timer, hands the datagram  *)
(* to picoquic, then sends every packet picoquic has prepared.  It yields  *)
(* the reactor at each wait(): that is where other steps interleave.       *)
(*                                                                         *)
(* Reads of the socket are counted: recvF is the newest one, and a         *)
(* datagram that completes an older, abandoned read reaches nobody.        *)
(***************************************************************************)
EXTENDS Integers

CONSTANTS MaxDatagrams,   \* bound: datagrams the peers send
          MaxErrors,      \* bound: errors the socket reports
          MaxBurst,       \* bound: packets picoquic prepares for one event
          SendMayFail     \* a sendTo may complete with an error

ASSUME LoopAssumption ==
    /\ MaxDatagrams \in Nat /\ MaxErrors \in Nat /\ MaxBurst \in Nat
    /\ SendMayFail \in BOOLEAN

VARIABLES
    pc,        \* where the actor is
    recvF,     \* state of the newest receiveFrom
    abandoned, \* older reads that are still pending
    kernel,    \* datagrams in the socket buffer
    ready,     \* packets picoquic has ready to send
    arrived, handled, skipped, lost, errors    \* counters

vars == <<pc, recvF, abandoned, kernel, ready, arrived, handled, skipped, lost, errors>>

Init ==
    /\ pc = "choose" /\ recvF = "pending" /\ abandoned = 0
    /\ kernel = 0 /\ ready = 0
    /\ arrived = 0 /\ handled = 0 /\ skipped = 0 /\ lost = 0 /\ errors = 0

-----------------------------------------------------------------------------
(* The network                                                             *)

Arrive ==
    /\ arrived < MaxDatagrams
    /\ arrived' = arrived + 1 /\ kernel' = kernel + 1
    /\ UNCHANGED <<pc, recvF, abandoned, ready, handled, skipped, lost, errors>>

\* The oldest read gets the datagram; a v6-form sender has been seen on macOS.
ReadCompletes ==
    /\ kernel > 0 /\ pc \notin {"failed", "exited"}
    /\ kernel' = kernel - 1
    /\ \/ /\ abandoned > 0
          /\ abandoned' = abandoned - 1 /\ lost' = lost + 1 /\ UNCHANGED recvF
       \/ /\ abandoned = 0 /\ recvF = "pending"
          /\ recvF' \in {"datagram", "v6"} /\ UNCHANGED <<abandoned, lost>>
    /\ UNCHANGED <<pc, ready, arrived, handled, skipped, errors>>

ReadFails ==
    /\ errors < MaxErrors /\ recvF = "pending" /\ pc \notin {"failed", "exited"}
    /\ errors' = errors + 1 /\ recvF' = "error"
    /\ UNCHANGED <<pc, abandoned, kernel, ready, arrived, handled, skipped, lost>>

-----------------------------------------------------------------------------
(* The actor                                                               *)

\* A read error is logged and the read is issued again.
RecvError ==
    /\ pc = "choose" /\ recvF = "error"
    /\ recvF' = "pending" /\ pc' = "drain"
    /\ UNCHANGED <<abandoned, kernel, ready, arrived, handled, skipped, lost, errors>>

RecvV6 ==
    /\ pc = "choose" /\ recvF = "v6"
    /\ recvF' = "pending" /\ pc' = "drain"
    /\ skipped' = skipped + 1
    /\ UNCHANGED <<abandoned, kernel, ready, arrived, handled, lost, errors>>

\* picoquic_incoming_packet, which may leave packets to send; then a new read.
RecvDatagram ==
    /\ pc = "choose" /\ recvF = "datagram"
    /\ recvF' = "pending" /\ pc' = "drain"
    /\ handled' = handled + 1
    /\ \E n \in 0 .. MaxBurst : ready' = n
    /\ UNCHANGED <<abandoned, kernel, arrived, skipped, lost, errors>>

\* Faulty Timer: the read is created anew in every iteration.
TimerNewRead ==
    /\ pc = "choose" /\ recvF = "pending"
    /\ pc' = "drain" /\ abandoned < MaxDatagrams
    /\ abandoned' = abandoned + 1
    /\ \E n \in 0 .. MaxBurst : ready' = n
    /\ UNCHANGED <<recvF, kernel, arrived, handled, skipped, lost, errors>>

\* delay(wakeDelayS) wins the choose: the pending read is kept.
Timer ==
    /\ pc = "choose" /\ recvF = "pending"
    /\ pc' = "drain"
    /\ \E n \in 0 .. MaxBurst : ready' = n
    /\ UNCHANGED <<recvF, abandoned, kernel, arrived, handled, skipped, lost, errors>>

\* picoquic_prepare_next_packet has a packet: sendTo is issued.
Prepare ==
    /\ pc = "drain" /\ ready > 0
    /\ ready' = ready - 1 /\ pc' = "send"
    /\ UNCHANGED <<recvF, abandoned, kernel, arrived, handled, skipped, lost, errors>>

\* It has none, or fails: back to the choose.
Drained ==
    /\ pc = "drain"
    /\ pc' = "choose" /\ ready' = 0
    /\ UNCHANGED <<recvF, abandoned, kernel, arrived, handled, skipped, lost, errors>>

SendDone ==
    /\ pc = "send"
    /\ pc' = "drain"
    /\ UNCHANGED <<recvF, abandoned, kernel, ready, arrived, handled, skipped, lost, errors>>

\* wait(socket->sendTo(...)) throws and nothing in the actor catches it.
SendFails ==
    /\ SendMayFail /\ errors < MaxErrors
    /\ pc = "send"
    /\ pc' = "failed" /\ errors' = errors + 1
    /\ UNCHANGED <<recvF, abandoned, kernel, ready, arrived, handled, skipped, lost>>

\* runServerOrReport: the process exits with status 1.
Report ==
    /\ pc = "failed"
    /\ pc' = "exited"
    /\ UNCHANGED <<recvF, abandoned, kernel, ready, arrived, handled, skipped, lost, errors>>

Recv == RecvError \/ RecvV6 \/ RecvDatagram

Next ==
    \/ Arrive \/ ReadCompletes \/ ReadFails
    \/ RecvError \/ RecvV6 \/ RecvDatagram \/ Timer
    \/ Prepare \/ Drained \/ SendDone \/ SendFails \/ Report

\* The reactor runs every resolved future's continuation, sends complete, a
\* datagram in the socket buffer completes a pending read, and a drain ends.
EventFairness ==
    /\ WF_vars(ReadCompletes) /\ WF_vars(Recv)
    /\ WF_vars(Prepare \/ Drained) /\ WF_vars(SendDone \/ SendFails)
    /\ WF_vars(Report)

Spec == Init /\ [][Next]_vars /\ EventFairness /\ WF_vars(Timer)

-----------------------------------------------------------------------------
(* Properties                                                              *)

\* "this recv loop must never die from a transient socket error".
NeverDies == pc \notin {"failed", "exited"}

\* A datagram that arrived reaches picoquic or is skipped, once, however the
\* timer, failed reads and the sends interleave, unless the loop fails first:
\* "Exactly one receiveFrom() stays outstanding at a time", so no datagram
\* completes a read nobody waits for.
EveryDatagramTaken ==
    /\ [](handled + skipped <= arrived)
    /\ \A n \in 1 .. MaxDatagrams :
          arrived >= n ~> (handled + skipped >= n \/ ~NeverDies)
=============================================================================
