------------------------------ MODULE MCFanout ------------------------------
(***************************************************************************)
(* Instances of Fanout: a connection c1 with the streams a1 and a2, and a  *)
(* connection c2 with the stream b1.  The clients do what the constants    *)
(* allow, or they are orderly: one receiving stream for each connection,   *)
(* and no header or frame the server cannot read.                          *)
(***************************************************************************)
EXTENDS Fanout, TLC

CONSTANTS c1, c2, a1, a2, b1

VARIABLE orderly

MCConn   == {c1, c2}
MCStream == {a1, a2, b1}
MCOwner  == a1 :> c1 @@ a2 :> c1 @@ b1 :> c2

\* The two streams of c1 may be exchanged.
MCSymmetry == Permutations({a1, a2})

\* What orderly clients never send.
Disorder ==
    \/ \E s \in Stream : (HeaderZoneMalformed(s) /\ ~HeaderZone(s)) \/ SketchCorrupt(s)
    \/ \E s \in Stream, t \in Topic : HeaderUnknown(s, t)
    \/ \E s, q \in open' : /\ s # q /\ Owner[s] = Owner[q]
                            /\ Receives(verb'[s]) /\ Receives(verb'[q])

MCInit == Init /\ orderly \in BOOLEAN
MCNext == Next /\ (orderly => ~Disorder) /\ UNCHANGED orderly
MCSpec == MCInit /\ [][MCNext]_<<vars, orderly>>

-----------------------------------------------------------------------------
(* What is claimed of orderly clients only                                 *)

\* "A subscriber receives each PUB payload verbatim, pushed back on the same
\* bidirectional stream it sent its SUB on": so it is for clients that open one
\* receiving stream on each connection (handleSub, handlePub).
OrderlyReached == [][orderly => Reaches]_<<vars, orderly>>

\* A late joiner on an SKB stream ends up with exactly the frames the room has
\* accepted, through replay and relay (handleSketchSub, handleSketchFrame).
\* They are relayed to streams of their topic only, as long as there are rooms
\* for all topics.
OrderlyConverges == orderly => SketchConverges /\ FramesStayInTopic
=============================================================================
