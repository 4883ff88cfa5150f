------------------------- MODULE CapabilityService -------------------------
(***************************************************************************)
(* What a WeftWarpBurrito.Sandbox promises its callers                     *)
(* (lib/weft_warp_burrito/sandbox.ex): a call of a fixed capability with a *)
(* fuel budget is answered with that capability's value when the budget    *)
(* covers its cost and with :gas_exhausted when it does not, or the caller *)
(* gives up.  Once a call has run out of gas the guest interpreter was     *)
(* stopped in the middle of an evaluation and later answers are open.      *)
(***************************************************************************)
EXTENDS Integers

CONSTANTS Client, Capability,
          Cost,        \* guest instructions each capability needs
          Fuel,        \* the budgets callers use
          None

VARIABLES asked,       \* the capability and budget of each waiting caller
          answer,      \* the latest answer each caller got
          worn         \* some call has run out of gas

svars == <<asked, answer, worn>>

\* The answer of a guest that was never stopped half way.
Outcome(cap, fuel) ==
    IF fuel >= Cost[cap] THEN <<"ok", cap>> ELSE <<"error", "gas_exhausted">>

\* Every answer call_capability_nif can produce for a capability.
Possible(cap) ==
    {<<"ok", cap>>, <<"ok", "garbled">>, <<"error", "gas_exhausted">>,
     <<"error", "guest_trap">>}

Init ==
    /\ asked = [c \in Client |-> None]
    /\ answer = [c \in Client |-> None]
    /\ worn = FALSE

Ask(c, cap, fuel) ==
    /\ asked[c] = None
    /\ asked' = [asked EXCEPT ![c] = <<cap, fuel>>]
    /\ answer' = [answer EXCEPT ![c] = None]
    /\ UNCHANGED worn

Answer(c) ==
    /\ asked[c] # None
    /\ \E a \in Possible(asked[c][1]) :
          /\ worn \/ a = Outcome(asked[c][1], asked[c][2])
          /\ answer' = [answer EXCEPT ![c] = a]
    /\ asked' = [asked EXCEPT ![c] = None]
    /\ UNCHANGED worn

\* The caller's GenServer.call exits: after its timeout, or because the
\* actor is gone.
GiveUp(c) ==
    /\ asked[c] # None
    /\ asked' = [asked EXCEPT ![c] = None]
    /\ answer' = [answer EXCEPT ![c] = <<"exit">>]
    /\ UNCHANGED worn

Wear == worn' = TRUE /\ UNCHANGED <<asked, answer>>

Next ==
    \/ \E c \in Client : Answer(c) \/ GiveUp(c)
    \/ \E c \in Client, cap \in Capability, fuel \in Fuel : Ask(c, cap, fuel)
    \/ Wear

Spec == Init /\ [][Next]_svars
=============================================================================
