--------------------------- MODULE SandboxProofs ---------------------------
(***************************************************************************)
(* The sandbox actor implements CapabilityService, for any clients,        *)
(* capabilities, costs and budgets.                                        *)
(***************************************************************************)
EXTENDS Sandbox, TLAPS

\* A request that was sent: it is not newer than its client's latest call,
\* and it is that call if the client still waits for it.
Sent(r) ==
    /\ r \in Request /\ r.ref <= calls[r.client]
    /\ waiting[r.client] # None /\ waiting[r.client].ref = r.ref => r = waiting[r.client]

\* A result that may be given to the request.
Honest(r, result) ==
    /\ result \in C!Possible(r.cap)
    /\ worn \/ result = C!Outcome(r.cap, r.fuel)

ClientsOK ==
    /\ waiting \in [Client -> Request \cup {None}]
    /\ calls \in [Client -> Nat]
    /\ \A c \in Client : calls[c] <= MaxCalls
    /\ \A c \in Client : waiting[c] # None =>
          waiting[c].client = c /\ waiting[c].ref = calls[c]

MailboxOK == mailbox \in Seq(Request) /\ \A i \in 1 .. Len(mailbox) : Sent(mailbox[i])

\* The fuel a job has used is the work it has done.
JobOK ==
    actor = "busy" =>
        /\ Sent(job) /\ left \in Nat /\ fuel \in Nat
        /\ ~worn => job.fuel - fuel = Cost[job.cap] - left

RepliesOK ==
    \A m \in replies :
        /\ m.client \in Client /\ m.ref \in Nat /\ m.ref <= calls[m.client]
        /\ Awaited(m) => Honest(waiting[m.client], m.result)

SandboxInv == ClientsOK /\ MailboxOK /\ JobOK /\ RepliesOK /\ worn \in BOOLEAN

\* A freshly started sandbox satisfies the invariant.
LEMMA SandboxInit == Init => SandboxInv
  <1> SUFFICES ASSUME Init PROVE SandboxInv
    OBVIOUS
  <1>1. ClientsOK
    <2>1. /\ waiting = [c \in Client |-> None] /\ calls = [c \in Client |-> 0]
      BY DEF Init
    <2>2. QED
      BY <2>1, SandboxAssumption DEF ClientsOK
  <1>2. MailboxOK
    <2>1. mailbox = <<>>
      BY DEF Init
    <2>2. QED
      BY <2>1 DEF MailboxOK
  <1>3. JobOK /\ RepliesOK /\ worn \in BOOLEAN
    <2>1. actor = "init" /\ replies = {} /\ worn = FALSE
      BY DEF Init
    <2>2. QED
      BY <2>1 DEF JobOK, RepliesOK
  <1>4. QED
    BY <1>1, <1>2, <1>3 DEF SandboxInv

\* Requests and replies stay good when clients only stop waiting and call
\* counters only grow.
LEMMA SentKept ==
  ASSUME NEW r, Sent(r),
         \A c \in Client : waiting'[c] \in {waiting[c], None} /\ calls[c] <= calls'[c],
         calls \in [Client -> Nat], calls' \in [Client -> Nat]
  PROVE  Sent(r)'
  <1>1. r \in Request /\ r.client \in Client /\ r.ref \in Nat
    BY DEF Sent, Request
  <1>2. r.ref <= calls'[r.client]
    BY <1>1 DEF Sent
  <1>3. waiting'[r.client] # None => waiting'[r.client] = waiting[r.client]
    BY <1>1
  <1>4. QED
    BY <1>1, <1>2, <1>3 DEF Sent

\* A step that changes neither requests nor replies, at most ends calls and
\* advances counters, keeps the whole invariant.
LEMMA CallsEnd ==
  ASSUME SandboxInv, ClientsOK',
         \A c \in Client : waiting'[c] \in {waiting[c], None} /\ calls[c] <= calls'[c],
         mailbox' \in {mailbox, <<>>}, UNCHANGED machine,
         actor' = "busy" => actor = "busy",
         replies' \subseteq replies
  PROVE  SandboxInv'
  <1>0. /\ ClientsOK /\ MailboxOK /\ JobOK /\ RepliesOK /\ worn \in BOOLEAN
        /\ job' = job /\ left' = left /\ fuel' = fuel /\ worn' = worn
        /\ calls \in [Client -> Nat] /\ calls' \in [Client -> Nat]
    BY DEF SandboxInv, machine, ClientsOK
  <1>1. \A r : Sent(r) => Sent(r)'
    BY <1>0, SentKept
  <1>2. MailboxOK'
    <2>1. CASE mailbox' = mailbox
      <3>1. mailbox' \in Seq(Request) /\ \A i \in 1 .. Len(mailbox') : Sent(mailbox[i])
        BY <1>0, <2>1 DEF MailboxOK
      <3>2. \A i \in 1 .. Len(mailbox') : Sent(mailbox[i])'
        BY <1>1, <2>1, <3>1 DEF Sent
      <3>3. QED
        BY <3>1, <3>2 DEF MailboxOK
    <2>2. CASE mailbox' = <<>>
      BY <2>2 DEF MailboxOK
    <2>3. QED
      BY <2>1, <2>2
  <1>3. JobOK'
    <2>1. ASSUME actor' = "busy" PROVE Sent(job)'
      BY <1>0, <1>1, <2>1 DEF JobOK, Sent
    <2>2. QED
      BY <1>0, <2>1 DEF JobOK
  <1>4. RepliesOK'
    <2> SUFFICES ASSUME NEW m \in replies'
                 PROVE  /\ m.client \in Client /\ m.ref \in Nat /\ m.ref <= calls'[m.client]
                        /\ Awaited(m)' => Honest(waiting[m.client], m.result)'
      BY DEF RepliesOK
    <2>1. /\ m.client \in Client /\ m.ref \in Nat /\ m.ref <= calls[m.client]
          /\ Awaited(m) => Honest(waiting[m.client], m.result)
      BY <1>0 DEF RepliesOK
    <2>2. m.ref <= calls'[m.client]
      BY <1>0, <2>1
    <2>3. Awaited(m)' => Awaited(m) /\ waiting'[m.client] = waiting[m.client]
      BY <2>1 DEF Awaited
    <2>4. Awaited(m)' => Honest(waiting[m.client], m.result)'
      BY <1>0, <2>1, <2>3 DEF Honest, C!Possible, C!Outcome
    <2>5. QED
      BY <2>1, <2>2, <2>4
  <1>5. QED
    BY <1>0, <1>2, <1>3, <1>4 DEF SandboxInv

\* Ending the call of one client keeps the clients well formed.
LEMMA EndOne ==
  ASSUME ClientsOK, NEW c \in Client, waiting' = [waiting EXCEPT ![c] = None],
         calls' \in [Client -> Nat],
         \A d \in Client \ {c} : calls'[d] = calls[d],
         calls[c] <= calls'[c], calls'[c] <= MaxCalls
  PROVE  /\ ClientsOK'
         /\ \A d \in Client : waiting'[d] \in {waiting[d], None} /\ calls[d] <= calls'[d]
  <1>1. \A d \in Client : waiting'[d] = IF d = c THEN None ELSE waiting[d]
    BY DEF ClientsOK
  <1>2. \A d \in Client : calls[d] <= calls'[d]
    BY DEF ClientsOK
  <1>3. waiting' \in [Client -> Request \cup {None}]
    BY DEF ClientsOK
  <1>4. QED
    BY <1>1, <1>2, <1>3 DEF ClientsOK

\* A new call keeps the invariant: its reference is newer than every request
\* and reply in flight.
LEMMA CallKeeps ==
  ASSUME SandboxInv, NEW c \in Client, NEW cap \in Capability, NEW f \in Fuel,
         Call(c, cap, f)
  PROVE  SandboxInv'
  <1>a. PICK req : req = [client |-> c, ref |-> calls[c] + 1, cap |-> cap, fuel |-> f]
    OBVIOUS
  <1>0. /\ ClientsOK /\ MailboxOK /\ JobOK /\ RepliesOK /\ worn \in BOOLEAN
        /\ waiting[c] = None /\ waiting' = [waiting EXCEPT ![c] = req]
        /\ calls' = [calls EXCEPT ![c] = @ + 1] /\ calls[c] < MaxCalls
        /\ mailbox' \in {mailbox, Append(mailbox, req)}
        /\ actor' = actor /\ job' = job /\ left' = left /\ fuel' = fuel
        /\ worn' = worn /\ replies' = replies
    BY <1>a DEF SandboxInv, Call, machine
  <1>1. /\ req \in Request /\ req.client = c /\ req.ref = calls[c] + 1
        /\ calls \in [Client -> Nat] /\ waiting \in [Client -> Request \cup {None}]
    BY <1>0, <1>a DEF Request, ClientsOK
  <1>2. /\ calls' \in [Client -> Nat] /\ waiting' \in [Client -> Request \cup {None}]
        /\ calls'[c] = calls[c] + 1 /\ waiting'[c] = req
        /\ \A d \in Client \ {c} : calls'[d] = calls[d] /\ waiting'[d] = waiting[d]
    BY <1>0, <1>1
  <1>3. ClientsOK'
    <2>1. calls'[c] <= MaxCalls
      BY <1>0, <1>1, <1>2, SandboxAssumption
    <2>2. QED
      BY <1>0, <1>1, <1>2, <2>1 DEF ClientsOK
  <1>4. ASSUME NEW r, Sent(r) PROVE Sent(r)'
    <2>1. r \in Request /\ r.client \in Client /\ r.ref \in Nat /\ r.ref <= calls[r.client]
      BY <1>4 DEF Sent, Request
    <2>2. CASE r.client = c
      BY <1>1, <1>2, <2>1, <2>2 DEF Sent
    <2>3. CASE r.client # c
      BY <1>2, <1>4, <2>1, <2>3 DEF Sent
    <2>4. QED
      BY <2>2, <2>3
  <1>5. Sent(req)'
    BY <1>1, <1>2 DEF Sent
  <1>6. MailboxOK'
    <2>1. mailbox' \in Seq(Request)
      <3>1. mailbox \in Seq(Request)
        BY <1>0 DEF MailboxOK
      <3>2. QED
        BY <1>0, <1>1, <3>1, SMTT(30)
    <2>2. ASSUME NEW i \in 1 .. Len(mailbox') PROVE Sent(mailbox[i])'
      <3>1. \/ i \in 1 .. Len(mailbox) /\ mailbox'[i] = mailbox[i]
            \/ mailbox'[i] = req
        <4>1. mailbox \in Seq(Request)
          BY <1>0 DEF MailboxOK
        <4>2. CASE mailbox' = mailbox
          BY <4>2
        <4>3. CASE mailbox' = Append(mailbox, req)
          BY <1>1, <4>1, <4>3
        <4>4. QED
          BY <1>0, <4>2, <4>3
      <3>2. CASE i \in 1 .. Len(mailbox) /\ mailbox'[i] = mailbox[i]
        <4>1. Sent(mailbox[i])
          BY <1>0, <3>2 DEF MailboxOK
        <4>2. QED
          BY <1>2, <1>4, <3>2, <4>1 DEF Sent
      <3>3. CASE mailbox'[i] = req
        BY <1>5, <3>3 DEF Sent
      <3>4. QED
        BY <3>1, <3>2, <3>3
    <2>3. QED
      BY <2>1, <2>2 DEF MailboxOK
  <1>7. JobOK'
    <2>1. ASSUME actor' = "busy" PROVE Sent(job)'
      <3>1. Sent(job)
        BY <1>0, <2>1 DEF JobOK
      <3>2. QED
        BY <1>0, <1>4, <3>1 DEF Sent
    <2>2. QED
      BY <1>0, <2>1 DEF JobOK
  <1>8. RepliesOK'
    <2> SUFFICES ASSUME NEW m \in replies
                 PROVE  /\ m.client \in Client /\ m.ref \in Nat /\ m.ref <= calls'[m.client]
                        /\ Awaited(m)' => Honest(waiting[m.client], m.result)'
      BY <1>0 DEF RepliesOK
    <2>1. /\ m.client \in Client /\ m.ref \in Nat /\ m.ref <= calls[m.client]
          /\ Awaited(m) => Honest(waiting[m.client], m.result)
      BY <1>0 DEF RepliesOK
    <2>2. CASE m.client = c
      BY <1>1, <1>2, <2>1, <2>2 DEF Awaited
    <2>3. CASE m.client # c
      BY <1>0, <1>2, <2>1, <2>3 DEF Awaited, Honest, C!Possible, C!Outcome
    <2>4. QED
      BY <2>2, <2>3
  <1>9. QED
    BY <1>0, <1>3, <1>6, <1>7, <1>8 DEF SandboxInv

\* Taking a request out of the mailbox keeps the invariant.
LEMMA HandleCallKeeps == ASSUME SandboxInv, HandleCall PROVE SandboxInv'
  <1>0. /\ ClientsOK /\ MailboxOK /\ JobOK /\ RepliesOK /\ worn \in BOOLEAN
        /\ mailbox # <<>> /\ job' = Head(mailbox) /\ mailbox' = Tail(mailbox)
        /\ fuel' = Head(mailbox).fuel
        /\ left' \in IF worn THEN {0, Cost[Head(mailbox).cap], Head(mailbox).fuel + 1}
                             ELSE {Cost[Head(mailbox).cap]}
        /\ worn' = worn /\ waiting' = waiting /\ calls' = calls /\ replies' = replies
    BY DEF SandboxInv, HandleCall, clients
  <1>1. \A r : Sent(r) => Sent(r)'
    BY <1>0 DEF Sent
  <1>2. /\ mailbox \in Seq(Request) /\ Len(mailbox) > 0 /\ Head(mailbox) = mailbox[1]
        /\ Tail(mailbox) \in Seq(Request) /\ Len(Tail(mailbox)) = Len(mailbox) - 1
        /\ \A i \in 1 .. Len(Tail(mailbox)) : Tail(mailbox)[i] = mailbox[i + 1]
    BY <1>0 DEF MailboxOK
  <1>3. \A i \in 1 .. Len(mailbox) : Sent(mailbox[i])
    BY <1>0 DEF MailboxOK
  <1>4. MailboxOK'
    <2>1. ASSUME NEW i \in 1 .. Len(mailbox') PROVE Sent(mailbox[i])'
      <3>1. mailbox'[i] = mailbox[i + 1] /\ i + 1 \in 1 .. Len(mailbox)
        BY <1>0, <1>2
      <3>2. QED
        BY <1>0, <1>3, <3>1 DEF Sent
    <2>2. QED
      BY <1>0, <1>2, <2>1 DEF MailboxOK
  <1>5. Sent(job)'
    <2>1. job' = mailbox[1] /\ Sent(mailbox[1])
      BY <1>0, <1>2, <1>3
    <2>2. QED
      BY <1>0, <2>1 DEF Sent
  <1>6. /\ job'.fuel \in Nat /\ Cost[job'.cap] \in Nat
    BY <1>5, SandboxAssumption DEF Sent, Request
  <1>7. JobOK'
    BY <1>0, <1>5, <1>6 DEF JobOK
  <1>8. ClientsOK' /\ RepliesOK'
    BY <1>0 DEF ClientsOK, RepliesOK, Awaited, Honest, C!Possible, C!Outcome
  <1>9. QED
    BY <1>0, <1>4, <1>7, <1>8 DEF SandboxInv

\* An instruction of the guest keeps the invariant.
LEMMA GuestStepKeeps == ASSUME SandboxInv, GuestStep PROVE SandboxInv'
  <1>0. /\ ClientsOK /\ MailboxOK /\ JobOK /\ RepliesOK /\ worn \in BOOLEAN
        /\ actor = "busy" /\ left > 0 /\ fuel > 0
        /\ left' = left - 1 /\ fuel' = fuel - 1 /\ actor' = actor /\ job' = job
        /\ worn' = worn /\ waiting' = waiting /\ calls' = calls /\ replies' = replies
        /\ mailbox' = mailbox
    BY DEF SandboxInv, GuestStep, clients
  <1>1. /\ Sent(job) /\ left \in Nat /\ fuel \in Nat
        /\ ~worn => job.fuel - fuel = Cost[job.cap] - left
    BY <1>0 DEF JobOK
  <1>2. job.fuel \in Nat /\ Cost[job.cap] \in Nat
    BY <1>1, SandboxAssumption DEF Sent, Request
  <1>3. Sent(job)'
    BY <1>0, <1>1 DEF Sent
  <1>4. JobOK'
    <2>1. left' \in Nat /\ fuel' \in Nat
      BY <1>0, <1>1
    <2>2. ASSUME ~worn PROVE job.fuel - fuel' = Cost[job.cap] - left'
      <3>1. job.fuel - fuel = Cost[job.cap] - left
        BY <1>1, <2>2
      <3>2. left' = left - 1 /\ fuel' = fuel - 1
        BY <1>0
      <3>3. QED
        BY <1>1, <1>2, <3>1, <3>2
    <2>3. worn' = worn /\ job' = job
      BY <1>0
    <2>4. QED
      BY <1>3, <2>1, <2>2, <2>3 DEF JobOK
  <1>5. ClientsOK' /\ RepliesOK' /\ MailboxOK'
    BY <1>0 DEF ClientsOK, RepliesOK, MailboxOK, Sent, Awaited, Honest, C!Possible, C!Outcome
  <1>6. QED
    BY <1>0, <1>4, <1>5 DEF SandboxInv

\* A call that returns an honest result keeps the invariant.
LEMMA ReturnKeeps ==
  ASSUME SandboxInv, NEW result, Return(result), actor = "busy",
         UNCHANGED clients, worn' \in BOOLEAN, worn => worn',
         result \in C!Possible(job.cap),
         worn' \/ result = C!Outcome(job.cap, job.fuel)
  PROVE  SandboxInv'
  <1>a. PICK m : m = [client |-> job.client, ref |-> job.ref, result |-> result]
    OBVIOUS
  <1>0. /\ ClientsOK /\ MailboxOK /\ JobOK /\ RepliesOK /\ worn \in BOOLEAN
        /\ waiting' = waiting /\ calls' = calls /\ mailbox' \in {mailbox, <<>>}
        /\ actor' # "busy" /\ replies' \subseteq replies \cup {m} /\ Sent(job)
    BY <1>a DEF SandboxInv, Return, clients, JobOK
  <1>1. MailboxOK'
    <2>1. CASE mailbox' = mailbox
      BY <1>0, <2>1 DEF MailboxOK, Sent
    <2>2. CASE mailbox' = <<>>
      BY <2>2 DEF MailboxOK
    <2>3. QED
      BY <1>0, <2>1, <2>2
  <1>2. JobOK'
    BY <1>0 DEF JobOK
  <1>3. ClientsOK'
    BY <1>0 DEF ClientsOK
  <1>4. /\ m.client = job.client /\ m.ref = job.ref /\ m.result = result
        /\ job.client \in Client /\ job.ref \in Nat /\ job.ref <= calls[job.client]
    BY <1>0, <1>a DEF Sent, Request
  <1>5. Awaited(m) => waiting[m.client] = job
    BY <1>0, <1>4 DEF Awaited, Sent
  <1>6. RepliesOK'
    <2> SUFFICES ASSUME NEW k \in replies'
                 PROVE  /\ k.client \in Client /\ k.ref \in Nat /\ k.ref <= calls'[k.client]
                        /\ Awaited(k)' => Honest(waiting[k.client], k.result)'
      BY DEF RepliesOK
    <2>1. CASE k \in replies
      <3>1. /\ k.client \in Client /\ k.ref \in Nat /\ k.ref <= calls[k.client]
            /\ Awaited(k) => Honest(waiting[k.client], k.result)
        BY <1>0, <2>1 DEF RepliesOK
      <3>2. QED
        BY <1>0, <3>1 DEF Awaited, Honest, C!Possible, C!Outcome
    <2>2. CASE k = m
      <3>1. Awaited(k)' => waiting'[k.client] = job
        BY <1>0, <1>5, <2>2 DEF Awaited
      <3>2. QED
        BY <1>0, <1>4, <2>2, <3>1 DEF Honest, C!Possible, C!Outcome
    <2>3. QED
      BY <1>0, <2>1, <2>2
  <1>7. QED
    BY <1>1, <1>2, <1>3, <1>6 DEF SandboxInv

\* The answer of a call that completed or ran out of gas on a guest that was
\* never stopped is the service's outcome.
LEMMA FinishHonest ==
  ASSUME SandboxInv, actor = "busy"
  PROVE  /\ left = 0 /\ ~worn => C!Outcome(job.cap, job.fuel) = <<"ok", job.cap>>
         /\ left > 0 /\ fuel = 0 /\ ~worn
               => C!Outcome(job.cap, job.fuel) = <<"error", "gas_exhausted">>
  <1>1. /\ Sent(job) /\ left \in Nat /\ fuel \in Nat
        /\ ~worn => job.fuel - fuel = Cost[job.cap] - left
    BY DEF SandboxInv, JobOK
  <1>2. job.fuel \in Nat /\ Cost[job.cap] \in Nat
    BY <1>1, SandboxAssumption DEF Sent, Request
  <1>3. left = 0 /\ ~worn => job.fuel >= Cost[job.cap]
    BY <1>1, <1>2
  <1>4. left > 0 /\ fuel = 0 /\ ~worn => ~(job.fuel >= Cost[job.cap])
    BY <1>1, <1>2
  <1>5. QED
    BY <1>3, <1>4 DEF C!Outcome

\* Every step of the sandbox keeps the invariant.
LEMMA SandboxStep == SandboxInv /\ [Next]_vars => SandboxInv'
  <1> SUFFICES ASSUME SandboxInv, [Next]_vars PROVE SandboxInv'
    OBVIOUS
  <1>0. /\ ClientsOK /\ RepliesOK /\ calls \in [Client -> Nat] /\ worn \in BOOLEAN
        /\ \A c \in Client : calls[c] <= calls[c]
    BY DEF SandboxInv, ClientsOK
  <1>1. ASSUME UNCHANGED <<machine, calls, waiting>>, mailbox' = mailbox,
               actor' = "busy" => actor = "busy", replies' \subseteq replies
        PROVE  SandboxInv'
    <2>1. ClientsOK'
      BY <1>0, <1>1 DEF ClientsOK
    <2>2. QED
      BY <1>0, <1>1, <2>1, CallsEnd
  <1>2. ASSUME NEW c \in Client, waiting' = [waiting EXCEPT ![c] = None], calls' = calls,
               UNCHANGED machine, mailbox' = mailbox, actor' = actor,
               replies' \subseteq replies
        PROVE  SandboxInv'
    <2>1. /\ ClientsOK'
          /\ \A d \in Client : waiting'[d] \in {waiting[d], None} /\ calls[d] <= calls'[d]
      BY <1>0, <1>2, EndOne DEF ClientsOK
    <2>2. QED
      BY <1>2, <2>1, CallsEnd
  <1>3. CASE UNCHANGED vars
    BY <1>1, <1>3 DEF vars, clients
  <1>4. CASE Start
    BY <1>1, <1>4 DEF Start, clients
  <1>5. CASE HandleCall
    BY <1>5, HandleCallKeeps
  <1>6. CASE GuestStep
    BY <1>6, GuestStepKeeps
  <1>7. CASE Finish
    <2>1. PICK r \in {<<"ok", job.cap>>} \cup
                (IF worn THEN {<<"ok", "garbled">>, <<"error", "guest_trap">>} ELSE {}) :
                Return(r)
      BY <1>7 DEF Finish
    <2>2. actor = "busy" /\ left = 0 /\ worn' = worn /\ UNCHANGED clients
      BY <1>7 DEF Finish
    <2>3. r \in C!Possible(job.cap)
      BY <2>1 DEF C!Possible
    <2>4. worn' \/ r = C!Outcome(job.cap, job.fuel)
      BY <1>0, <2>1, <2>2, FinishHonest
    <2>5. QED
      BY <1>0, <2>1, <2>2, <2>3, <2>4, ReturnKeeps
  <1>8. CASE Exhaust
    <2>1. /\ Return(<<"error", "gas_exhausted">>) /\ actor = "busy" /\ worn' = TRUE
          /\ UNCHANGED clients
      BY <1>8 DEF Exhaust
    <2>2. <<"error", "gas_exhausted">> \in C!Possible(job.cap)
      BY DEF C!Possible
    <2>3. QED
      BY <2>1, <2>2, ReturnKeeps
  <1>9. CASE DropReply
    BY <1>1, <1>9 DEF DropReply, clients
  <1>10. CASE StarterDies
    <2>1. /\ Starter \in Client /\ waiting' = [waiting EXCEPT ![Starter] = None]
          /\ calls' = [calls EXCEPT ![Starter] = MaxCalls] /\ UNCHANGED machine
          /\ mailbox' \in {mailbox, <<>>} /\ (actor' = "busy" => actor = "busy")
          /\ replies' = replies /\ MaxCalls \in Nat
      BY <1>10, SandboxAssumption DEF StarterDies, GiveUp
    <2>2. /\ calls[Starter] \in Nat /\ calls[Starter] <= MaxCalls
          /\ calls' \in [Client -> Nat] /\ calls'[Starter] = MaxCalls
          /\ \A d \in Client \ {Starter} : calls'[d] = calls[d]
      BY <1>0, <2>1 DEF ClientsOK
    <2>3. MaxCalls <= MaxCalls
      BY <2>1
    <2>4. /\ ClientsOK'
          /\ \A d \in Client : waiting'[d] \in {waiting[d], None} /\ calls[d] <= calls'[d]
      BY <1>0, <2>1, <2>2, <2>3, EndOne
    <2>5. QED
      BY <2>1, <2>4, CallsEnd
  <1>11. ASSUME NEW c \in Client, TakeReply(c) PROVE SandboxInv'
    BY <1>2, <1>11 DEF TakeReply
  <1>12. ASSUME NEW c \in Client, Timeout(c) PROVE SandboxInv'
    BY <1>2, <1>12 DEF Timeout, GiveUp
  <1>13. ASSUME NEW c \in Client, Down(c) PROVE SandboxInv'
    BY <1>2, <1>13 DEF Down, GiveUp
  <1>14. ASSUME NEW c \in Client, NEW cap \in Capability, NEW f \in Fuel, Call(c, cap, f)
         PROVE  SandboxInv'
    BY <1>14, CallKeeps
  <1>15. QED
    BY <1>3, <1>4, <1>5, <1>6, <1>7, <1>8, <1>9, <1>10, <1>11, <1>12, <1>13, <1>14
       DEF Next

\* Every step of the sandbox is a step of the service, or none.
LEMMA ServiceStep == SandboxInv /\ [Next]_vars => [C!Next]_C!svars
  <1> SUFFICES ASSUME SandboxInv, [Next]_vars PROVE [C!Next]_C!svars
    OBVIOUS
  <1>0. /\ ClientsOK /\ RepliesOK
        /\ waiting \in [Client -> Request \cup {None}] /\ None \notin Capability \X Fuel
        /\ None \notin Request
    BY SandboxAssumption DEF SandboxInv, ClientsOK
  <1>1. ASSUME waiting' = waiting, answer' = answer, worn' = worn PROVE UNCHANGED C!svars
    BY <1>1 DEF C!svars, Asked
  <1>2. ASSUME NEW c \in Client, waiting[c] # None, GiveUp(c), worn' = worn PROVE C!GiveUp(c)
    <2>1. Asked[c] # None
      BY <1>0, <1>2, SMTT(30) DEF Asked, Request
    <2>2. Asked' = [Asked EXCEPT ![c] = None]
      BY <1>0, <1>2 DEF Asked, GiveUp
    <2>3. QED
      BY <1>2, <2>1, <2>2 DEF C!GiveUp, GiveUp
  <1>3. CASE UNCHANGED vars
    BY <1>1, <1>3 DEF vars, clients, machine
  <1>4. CASE Start \/ HandleCall \/ GuestStep \/ Finish \/ DropReply
    BY <1>1, <1>4 DEF Start, HandleCall, GuestStep, Finish, DropReply, machine, clients
  <1>5. CASE Exhaust
    <2>1. Asked' = Asked /\ answer' = answer /\ worn' = TRUE
      BY <1>5 DEF Exhaust, clients, Asked
    <2>2. C!Wear
      BY <2>1 DEF C!Wear
    <2>3. QED
      BY <2>2 DEF C!Next
  <1>6. CASE StarterDies
    <2>1. C!GiveUp(Starter)
      BY <1>2, <1>6, SandboxAssumption DEF StarterDies, machine
    <2>2. QED
      BY <2>1, SandboxAssumption DEF C!Next
  <1>7. ASSUME NEW c \in Client, TakeReply(c) PROVE C!Next
    <2>1. PICK m \in replies : /\ m.client = c /\ Awaited(m)
                               /\ answer' = [answer EXCEPT ![c] = m.result]
      BY <1>7 DEF TakeReply
    <2>2. waiting' = [waiting EXCEPT ![c] = None] /\ worn' = worn
      BY <1>7 DEF TakeReply, machine
    <2>3. Honest(waiting[c], m.result) /\ waiting[c] # None
      BY <1>0, <2>1 DEF RepliesOK, Awaited
    <2>4. Asked[c] = <<waiting[c].cap, waiting[c].fuel>> /\ Asked[c] # None
      BY <1>0, <2>3, SMTT(30) DEF Asked, Request
    <2>5. Asked' = [Asked EXCEPT ![c] = None]
      BY <1>0, <2>2 DEF Asked
    <2>6. /\ m.result \in C!Possible(Asked[c][1])
          /\ worn \/ m.result = C!Outcome(Asked[c][1], Asked[c][2])
      BY <2>3, <2>4 DEF Honest
    <2>7. C!Answer(c)
      BY <2>1, <2>2, <2>4, <2>5, <2>6 DEF C!Answer
    <2>8. QED
      BY <2>7 DEF C!Next
  <1>8. ASSUME NEW c \in Client, Timeout(c) \/ Down(c) PROVE C!Next
    <2>1. C!GiveUp(c)
      BY <1>2, <1>8 DEF Timeout, Down, machine
    <2>2. QED
      BY <2>1 DEF C!Next
  <1>9. ASSUME NEW c \in Client, NEW cap \in Capability, NEW f \in Fuel, Call(c, cap, f)
        PROVE  C!Next
    <2>1. PICK req : /\ req = [client |-> c, ref |-> calls[c] + 1, cap |-> cap, fuel |-> f]
                     /\ waiting' = [waiting EXCEPT ![c] = req]
      BY <1>9 DEF Call
    <2>2. /\ waiting[c] = None /\ answer' = [answer EXCEPT ![c] = None] /\ worn' = worn
      BY <1>9 DEF Call, machine
    <2>3. req \in Request /\ req.cap = cap /\ req.fuel = f /\ req # None
      BY <1>0, <2>1, SMTT(30) DEF ClientsOK, Request
    <2>4. Asked[c] = None
      BY <2>2 DEF Asked
    <2>5. Asked' = [Asked EXCEPT ![c] = <<cap, f>>]
      BY <1>0, <2>1, <2>3 DEF Asked
    <2>6. C!Ask(c, cap, f)
      BY <2>2, <2>4, <2>5 DEF C!Ask
    <2>7. QED
      BY <2>6 DEF C!Next
  <1>10. QED
    BY <1>3, <1>4, <1>5, <1>6, <1>7, <1>8, <1>9 DEF Next

\* The sandbox actor implements the capability service: the answer a caller
\* gets is the one its own current call earned with its fuel.
THEOREM SandboxImplementsService == Spec => ServiceRefined
  <1>1. Init => C!Init
    BY DEF Init, C!Init, Asked
  <1>2. QED
    BY <1>1, SandboxInit, SandboxStep, ServiceStep, PTL DEF Spec, ServiceRefined, C!Spec

=============================================================================
