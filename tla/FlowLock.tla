------------------------------ MODULE FlowLock ------------------------------
(***************************************************************************)
(* FlowLock (flow/include/flow/genericactors.actor.h): a counting lock for *)
(* actors on one thread.  A client's take is an actor that may be waiting  *)
(* in the list of takers, or already hold its permits while it yields, and *)
(* can be cancelled at either point.  release() grants to the takers at    *)
(* the front of the list that fit; what a killed lock grants, the taker's  *)
(* error handler releases at once.                                         *)
(***************************************************************************)
EXTENDS Integers, Sequences, FiniteSets, FiniteSetsExt, SequencesExt

CONSTANTS Client, Permits,
          Amounts,    \* the vectors of permits the clients ask for
          UpTo        \* the clients that call takeUpTo instead of take

ASSUME PermitsAssumption == Permits \in Nat \ {0} /\ UpTo \subseteq Client

VARIABLES
    amount,     \* what each client asks for
    held,       \* the permits counted for it
    taking,     \* where its take is: "out", "queued", "granted", "yielding", "held"
    takers, active, lockKilled    \* the members of the lock

flowLockVars == <<amount, held, taking, takers, active, lockKilled>>

FlowLockInit ==
    /\ amount \in Amounts
    /\ held = [c \in Client |-> 0] /\ taking = [c \in Client |-> "out"]
    /\ takers = <<>> /\ active = 0 /\ lockKilled = FALSE

-----------------------------------------------------------------------------
\* What take() asks for: takeUpTo takes one permit first.
Ask(c) == IF c \in UpTo THEN 1 ELSE amount[c]

Fits(n, used) == used + n <= Permits \/ used = 0

Asked(cs) == MapThenSumSet(Ask, cs)
Held(cs) == MapThenSumSet(LAMBDA c : held[c], cs)

\* The loop of release() lets the first k takers in when used permits are
\* taken.  On a killed lock each one gives its permits back at once.
Lets(q, used, k, dead) ==
    \A j \in 1 .. k :
        Fits(Ask(q[j]), used + IF dead THEN 0 ELSE Asked({q[i] : i \in 1 .. j - 1}))

GrantCount(q, used, dead) == Max({k \in 0 .. Len(q) : Lets(q, used, k, dead)})

\* release(): used permits remain, the front of the list q is served, and the
\* clients in left are out.
Serve(q, used, left, dead) ==
    LET k == GrantCount(q, used, dead)
        front == {q[i] : i \in 1 .. k}
        in == IF dead THEN {} ELSE front
        out == left \union (front \ in)
    IN  /\ takers' = SubSeq(q, k + 1, Len(q))
        /\ active' = used + Asked(in)
        /\ taking' = [c \in Client |-> IF c \in in THEN "granted"
                                       ELSE IF c \in out THEN "out" ELSE taking[c]]
        /\ held' = [c \in Client |-> IF c \in in THEN Ask(c) ELSE IF c \in out THEN 0 ELSE held[c]]

\* takeUpTo takes what more there is, once take() has returned.
More(c, used) == IF c \in UpTo THEN Min({Permits - used, amount[c] - 1}) ELSE 0

\* take() with permits to spare: the caller gets them at once when yield() is
\* ready, or else waits for its turn; on a killed lock that wait throws.
TakeNow(c) ==
    /\ taking[c] = "out" /\ Fits(Ask(c), active)
    /\ \/ LET n == Ask(c) + More(c, active + Ask(c))
          IN  /\ active' = active + n /\ held' = [held EXCEPT ![c] = n]
              /\ taking' = [taking EXCEPT ![c] = "held"] /\ UNCHANGED takers
       \/ /\ ~lockKilled
          /\ active' = active + Ask(c) /\ held' = [held EXCEPT ![c] = Ask(c)]
          /\ taking' = [taking EXCEPT ![c] = "yielding"] /\ UNCHANGED takers
       \/ /\ lockKilled
          /\ Serve(takers, active, {c}, TRUE)
    /\ UNCHANGED <<amount, lockKilled>>

\* Faulty TakeLater: the newest taker is first in the list.
TakeLaterFirst(c) ==
    /\ taking[c] = "out" /\ ~Fits(Ask(c), active)
    /\ takers' = <<c>> \o takers /\ taking' = [taking EXCEPT ![c] = "queued"]
    /\ UNCHANGED <<amount, held, active, lockKilled>>

TakeLater(c) ==
    /\ taking[c] = "out" /\ ~Fits(Ask(c), active)
    /\ takers' = Append(takers, c) /\ taking' = [taking EXCEPT ![c] = "queued"]
    /\ UNCHANGED <<amount, held, active, lockKilled>>

\* The delay or the yield is over.
TakeDone(c) ==
    /\ taking[c] \in {"granted", "yielding"}
    /\ active' = active + More(c, active) /\ held' = [held EXCEPT ![c] = @ + More(c, active)]
    /\ taking' = [taking EXCEPT ![c] = "held"]
    /\ UNCHANGED <<amount, takers, lockKilled>>

Release(c) ==
    /\ taking[c] = "held"
    /\ Serve(takers, active - held[c], {c}, lockKilled)
    /\ UNCHANGED <<amount, lockKilled>>

\* Faulty cancellation: no release(0) after the erase.
CancelQuietly(c) ==
    /\ taking[c] = "queued"
    /\ takers' = SelectSeq(takers, LAMBDA d : d # c)
    /\ taking' = [taking EXCEPT ![c] = "out"]
    /\ UNCHANGED <<amount, held, active, lockKilled>>

\* Its caller drops the take: a queued one leaves the list, then release(0);
\* one that has its permits gives them back.
Cancel(c) ==
    /\ taking[c] \in {"queued", "granted", "yielding"}
    /\ Serve(SelectSeq(takers, LAMBDA d : d # c), active - held[c], {c}, lockKilled)
    /\ UNCHANGED <<amount, lockKilled>>

\* kill(): the takes that hold permits without their caller knowing fail.  The
\* takers still in the list wait for something else.
Kill ==
    /\ ~lockKilled /\ lockKilled' = TRUE
    /\ LET failed == {c \in Client : taking[c] \in {"granted", "yielding"}}
       IN  IF failed = {} THEN UNCHANGED <<held, taking, takers, active>>
           ELSE Serve(takers, active - Held(failed), failed, TRUE)
    /\ UNCHANGED amount

FlowLockStep(c) == TakeNow(c) \/ TakeLater(c) \/ TakeDone(c) \/ Release(c) \/ Cancel(c)
FlowLockNext == (\E c \in Client : FlowLockStep(c)) \/ Kill

\* The reactor runs what is ready, and holders release.
FlowLockFairness ==
    \A c \in Client : WF_flowLockVars(TakeDone(c)) /\ WF_flowLockVars(Release(c))

FlowLockSpec == FlowLockInit /\ [][FlowLockNext]_flowLockVars /\ FlowLockFairness

-----------------------------------------------------------------------------
(* Properties                                                              *)

FlowLockTypeOK ==
    /\ amount \in Amounts /\ held \in [Client -> Nat]
    /\ taking \in [Client -> {"out", "queued", "granted", "yielding", "held"}]
    /\ takers \in Seq(Client) /\ active \in Nat /\ lockKilled \in BOOLEAN

\* No permit leaks, whatever is cancelled, killed or served in between: active
\* is what the clients hold, and the list holds the queued ones, once each.
PermitsAccounted ==
    /\ active = Held(Client)
    /\ \A c \in Client : held[c] > 0 <=> taking[c] \in {"granted", "yielding", "held"}
    /\ {takers[i] : i \in DOMAIN takers} = {c \in Client : taking[c] = "queued"}
    /\ IsInjective(takers)

\* "there can be only a limited number of clients": more permits than there are
\* go out only to one client that asks for more than there are.
LimitKept == active <= Permits \/ Cardinality({c \in Client : held[c] > 0}) = 1

\* No permit lies idle: the first taker in the list would not fit.
NoIdlePermit == takers # <<>> => ~Fits(Ask(takers[1]), active)

\* When every client asks for one permit, every taker is served or fails: no
\* later take overtakes it.
UnitTakersServed ==
    \A c \in Client :
        (taking[c] = "queued" /\ \A d \in Client : Ask(d) = 1) ~> taking[c] # "queued"
=============================================================================
