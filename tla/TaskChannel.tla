---------------------------- MODULE TaskChannel ----------------------------
(***************************************************************************)
(* What ThreadSafeQueue promises its users: every element arrives, once,   *)
(* in the order in which the pushes took effect.                           *)
(***************************************************************************)
EXTENDS Sequences

CONSTANT Element

VARIABLES inFlight, received

Init == inFlight = <<>> /\ received = {}

Send(e) ==
    /\ e \notin received /\ \A i \in DOMAIN inFlight : inFlight[i] # e
    /\ inFlight' = Append(inFlight, e)
    /\ UNCHANGED received

Receive ==
    /\ inFlight # <<>>
    /\ inFlight' = Tail(inFlight) /\ received' = received \union {Head(inFlight)}

Next == (\E e \in Element : Send(e)) \/ Receive

Spec == Init /\ [][Next]_<<inFlight, received>>
=============================================================================
