------------------------------ MODULE Sandbox ------------------------------
(***************************************************************************)
(* The sandbox actor: WeftWarpBurrito.Sandbox                              *)
(* (lib/weft_warp_burrito/sandbox.ex) and the NIF behind it                *)
(* (c_src/nif/weft_sandbox_nif.cpp), which runs one fixed capability of    *)
(* the s7 guest (c_src/guest/weft_guest.c) in a libriscv Machine.          *)
(*                                                                         *)
(* Callers are processes that use GenServer.call with its default timeout. *)
(* The actor is linked to the caller that started it, so that caller's     *)
(* exit reaches the actor; while the actor is inside the dirty NIF the     *)
(* exit takes effect only when the NIF returns.  Guest execution is a      *)
(* countdown of Cost[capability] instructions against the fuel.            *)
(***************************************************************************)
EXTENDS Integers, Sequences

CONSTANTS Client,
          Starter,     \* the caller that ran start_link
          Capability,
          Cost,        \* guest instructions each capability needs
          Fuel,        \* the budgets callers use
          MaxCalls,    \* bound: calls each client makes
          None

\* A {:call_capability, capability, fuel} message and where its reply goes.
Request == [client : Client, ref : Nat, cap : Capability, fuel : Fuel]

ASSUME SandboxAssumption ==
    /\ Starter \in Client /\ Cost \in [Capability -> Nat] /\ Fuel \subseteq Nat
    /\ MaxCalls \in Nat
    /\ None \notin Request /\ None \notin Capability \X Fuel

VARIABLES
    actor,     \* "init", "failed", "idle", "busy" or "dead"
    exiting,   \* an exit signal waits for the NIF to return
    mailbox,   \* the actor's queue of {:call_capability, ...} requests
    job,       \* the request the NIF is running
    left,      \* guest instructions the job still needs
    fuel,      \* fuel the job has left
    worn,      \* the guest was stopped in the middle of an evaluation
    calls,     \* how many calls each client has made
    waiting,   \* the request each client waits for
    replies,   \* replies on their way
    answer     \* the latest answer each client got

machine == <<job, left, fuel, worn>>
clients == <<calls, waiting, answer>>
vars == <<actor, exiting, mailbox, machine, clients, replies>>

\* The call each client is in, as the service sees it.
Asked == [c \in Client |-> IF waiting[c] = None THEN None
                            ELSE <<waiting[c].cap, waiting[c].fuel>>]

C == INSTANCE CapabilityService WITH asked <- Asked

-----------------------------------------------------------------------------
Init ==
    /\ actor = "init" /\ exiting = FALSE
    /\ mailbox = <<>> /\ job = None /\ left = 0 /\ fuel = 0 /\ worn = FALSE
    /\ calls = [c \in Client |-> 0]
    /\ waiting = [c \in Client |-> None]
    /\ replies = {}
    /\ answer = [c \in Client |-> None]

\* init/1: new_sandbox_nif loads the ELF and runs guest_init, or returns
\* :guest_elf_not_found or :guest_init_failed and the actor stops.
Start ==
    /\ actor = "init"
    /\ actor' \in {"idle", "failed"}
    /\ UNCHANGED <<exiting, mailbox, machine, clients, replies>>

\* loot_roll/2, combat_replay/2 or progression_replay/2.  start_link handed
\* out a pid only if init succeeded.  A dead actor is noticed at once.
Call(c, cap, f) ==
    /\ actor \notin {"init", "failed"}
    /\ waiting[c] = None /\ calls[c] < MaxCalls
    /\ LET req == [client |-> c, ref |-> calls[c] + 1, cap |-> cap, fuel |-> f]
       IN  /\ waiting' = [waiting EXCEPT ![c] = req]
           /\ mailbox' = IF actor = "dead" THEN mailbox ELSE Append(mailbox, req)
    /\ calls' = [calls EXCEPT ![c] = @ + 1]
    /\ answer' = [answer EXCEPT ![c] = None]
    /\ UNCHANGED <<actor, exiting, machine, replies>>

\* handle_call: the oldest request enters call_capability_nif.  The stack
\* pointer and the argument registers are set afresh; the guest heap is not.
\* A worn guest may need any number of instructions.
HandleCall ==
    /\ actor = "idle" /\ mailbox # <<>>
    /\ actor' = "busy"
    /\ job' = Head(mailbox) /\ mailbox' = Tail(mailbox)
    /\ fuel' = Head(mailbox).fuel
    /\ left' \in IF worn THEN {0, Cost[Head(mailbox).cap], Head(mailbox).fuel + 1}
                         ELSE {Cost[Head(mailbox).cap]}
    /\ UNCHANGED <<exiting, worn, clients, replies>>

\* simulate_with executes one instruction of the guest.
GuestStep ==
    /\ actor = "busy" /\ left > 0 /\ fuel > 0
    /\ left' = left - 1 /\ fuel' = fuel - 1
    /\ UNCHANGED <<actor, exiting, mailbox, job, worn, clients, replies>>

\* Faulty end of a call: a failed call gets no reply.
ReturnNoErrorReply(result) ==
    /\ replies' = IF result[1] = "error" THEN replies
                  ELSE replies \cup {[client |-> job.client, ref |-> job.ref, result |-> result]}
    /\ job' = None /\ left' = 0 /\ fuel' = 0
    /\ actor' = IF exiting THEN "dead" ELSE "idle"
    /\ mailbox' = IF exiting THEN <<>> ELSE mailbox
    /\ UNCHANGED exiting

\* The NIF returns.  A process with an exit signal pending dies instead of
\* replying.
Return(result) ==
    /\ replies' = IF exiting THEN replies
                  ELSE replies \cup {[client |-> job.client, ref |-> job.ref, result |-> result]}
    /\ job' = None /\ left' = 0 /\ fuel' = 0
    /\ actor' = IF exiting THEN "dead" ELSE "idle"
    /\ mailbox' = IF exiting THEN <<>> ELSE mailbox
    /\ UNCHANGED exiting

\* The capability completed within its budget.
Finish ==
    /\ actor = "busy" /\ left = 0
    /\ \E r \in {<<"ok", job.cap>>} \cup
                (IF worn THEN {<<"ok", "garbled">>, <<"error", "guest_trap">>} ELSE {}) :
          Return(r)
    /\ UNCHANGED <<worn, clients>>

\* MachineTimeoutException: the guest stops wherever it is.
Exhaust ==
    /\ actor = "busy" /\ left > 0 /\ fuel = 0
    /\ Return(<<"error", "gas_exhausted">>)
    /\ worn' = TRUE
    /\ UNCHANGED clients

\* Faulty receive: the reference is not compared.
AwaitedAny(m) == waiting[m.client] # None

\* The reply belongs to the call its client is in.
Awaited(m) == waiting[m.client] # None /\ waiting[m.client].ref = m.ref

\* GenServer.call receives the reply with its own reference.
TakeReply(c) ==
    /\ \E m \in replies :
          /\ m.client = c /\ Awaited(m)
          /\ answer' = [answer EXCEPT ![c] = m.result]
          /\ replies' = replies \ {m}
    /\ waiting' = [waiting EXCEPT ![c] = None]
    /\ UNCHANGED <<actor, exiting, mailbox, machine, calls>>

\* A reply to a call that was given up is discarded.
DropReply ==
    \E m \in replies :
        /\ ~Awaited(m)
        /\ replies' = replies \ {m}
        /\ UNCHANGED <<actor, exiting, mailbox, machine, clients>>

GiveUp(c) ==
    /\ waiting' = [waiting EXCEPT ![c] = None]
    /\ answer' = [answer EXCEPT ![c] = <<"exit">>]

\* The 5 s of GenServer.call are over and the caller catches the exit.  The
\* request stays in the mailbox.
Timeout(c) ==
    /\ waiting[c] # None
    /\ GiveUp(c)
    /\ UNCHANGED <<actor, exiting, mailbox, machine, calls, replies>>

\* They are over for the starter, which does not catch the exit and dies: the
\* link kills the actor, at once or when the NIF returns.
StarterDies ==
    /\ waiting[Starter] # None /\ actor \in {"idle", "busy"}
    /\ GiveUp(Starter)
    /\ calls' = [calls EXCEPT ![Starter] = MaxCalls]
    /\ actor' = IF actor = "idle" THEN "dead" ELSE actor
    /\ mailbox' = IF actor = "idle" THEN <<>> ELSE mailbox
    /\ exiting' = (actor = "busy")
    /\ UNCHANGED <<machine, replies>>

\* GenServer.call monitors the actor: its death ends the call.  Signals of
\* one process arrive in order, so a reply sent before the death is first.
Down(c) ==
    /\ actor = "dead" /\ waiting[c] # None
    /\ \A m \in replies : m.client = c => ~Awaited(m)
    /\ GiveUp(c)
    /\ UNCHANGED <<actor, exiting, mailbox, machine, calls, replies>>

Next ==
    \/ Start \/ HandleCall \/ GuestStep \/ Finish \/ Exhaust \/ DropReply \/ StarterDies
    \/ \E c \in Client : TakeReply(c) \/ Timeout(c) \/ Down(c)
    \/ \E c \in Client, cap \in Capability, f \in Fuel : Call(c, cap, f)

\* The BEAM schedules the actor and the dirty NIF, and delivers messages and
\* monitors.  Nothing is assumed about timeouts.
CallFairness ==
    /\ WF_vars(HandleCall \/ GuestStep \/ Finish \/ Exhaust)
    /\ \A c \in Client : WF_vars(TakeReply(c) \/ Down(c))

Spec == Init /\ [][Next]_vars /\ WF_vars(Start) /\ CallFairness

-----------------------------------------------------------------------------
(* Properties                                                              *)

\* Every variable keeps its type; the NIF runs a job exactly while the actor
\* is busy, and only a busy actor has an exit signal pending.
TypeOK ==
    /\ actor \in {"init", "failed", "idle", "busy", "dead"}
    /\ \A i \in 1 .. Len(mailbox) : mailbox[i] \in Request
    /\ (actor = "busy") = (job # None)
    /\ job \in Request \cup {None}
    /\ left \in Nat /\ fuel \in Nat /\ worn \in BOOLEAN
    /\ exiting => actor \in {"busy", "dead"}
    /\ \A c \in Client : waiting[c] \in Request \cup {None}

\* The sandbox is the capability service its documentation promises: "a call
\* either completes within budget or the NIF returns {:error,
\* :gas_exhausted}", each caller gets the answer to its own current call, and
\* a late reply to a call it gave up is never taken for another.
ServiceRefined == C!Spec

\* Every call ends even if no timeout ever fires: fuel bounds each call ahead
\* of it in the mailbox, and the death of the actor is noticed.
EveryCallEnds == \A c \in Client : waiting[c] # None ~> waiting[c] = None
=============================================================================
