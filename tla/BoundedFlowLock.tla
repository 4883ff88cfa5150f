-------------------------- MODULE BoundedFlowLock --------------------------
(***************************************************************************)
(* BoundedFlowLock and the NotifiedInt it waits on                         *)
(* (flow/include/flow/genericactors.actor.h): permits are numbered, and a  *)
(* take waits until its number is within boundedPermits of the             *)
(* unrestrictedPermits-th oldest permit outstanding.                       *)
(***************************************************************************)
EXTENDS Integers, FiniteSets

CONSTANTS Holder, UnrestrictedPermits, BoundedPermits,
          MaxPermit    \* bound: permits numbered

ASSUME BoundedAssumption == UnrestrictedPermits \in Nat \ {0} /\ BoundedPermits \in Nat /\ MaxPermit \in Nat

VARIABLES
    number,             \* the permit each client waits for or holds, 0 if none
    granted,            \* the clients whose take has returned
    outstanding, minOutstanding, nextPermitNumber,    \* the members of the lock
    cancelled           \* a take was cancelled while it waited

boundedVars == <<number, granted, outstanding, minOutstanding, nextPermitNumber, cancelled>>

BoundedInit ==
    /\ number = [c \in Holder |-> 0] /\ granted = {}
    /\ outstanding = {} /\ minOutstanding = 0 /\ nextPermitNumber = 0
    /\ cancelled = FALSE

\* outstanding.index(unrestrictedPermits - 1), or the newest number.
OldestBound(out, newest) ==
    IF Cardinality(out) < UnrestrictedPermits THEN newest
    ELSE CHOOSE n \in out : Cardinality({m \in out : m < n}) = UnrestrictedPermits - 1

\* Faulty test: off by one.
WithinOver(n, least) == n - BoundedPermits <= least + 1

Within(n, least) == n - BoundedPermits <= least

\* updateMinOutstanding(), whose set() returns the takes that have come in reach.
Update(out, newest, num) ==
    /\ outstanding' = out /\ nextPermitNumber' = newest /\ number' = num
    /\ minOutstanding' = OldestBound(out, newest)
    /\ granted' = {c \in Holder : num[c] > 0 /\ (c \in granted \/ Within(num[c], minOutstanding'))}

TakePermit(c) ==
    /\ number[c] = 0 /\ nextPermitNumber < MaxPermit
    /\ Update(outstanding \union {nextPermitNumber + 1}, nextPermitNumber + 1,
              [number EXCEPT ![c] = nextPermitNumber + 1])
    /\ UNCHANGED cancelled

\* Faulty release: the waiting takes are not looked at.
ReleaseQuietly(c) ==
    /\ c \in granted
    /\ outstanding' = outstanding \ {number[c]} /\ number' = [number EXCEPT ![c] = 0]
    /\ granted' = granted \ {c}
    /\ UNCHANGED <<minOutstanding, nextPermitNumber, cancelled>>

ReleasePermit(c) ==
    /\ c \in granted
    /\ Update(outstanding \ {number[c]}, nextPermitNumber, [number EXCEPT ![c] = 0])
    /\ UNCHANGED cancelled

\* A take that is cancelled while it waits: its number stays outstanding.
CancelTake(c) ==
    /\ number[c] > 0 /\ c \notin granted
    /\ number' = [number EXCEPT ![c] = 0] /\ cancelled' = TRUE
    /\ UNCHANGED <<granted, outstanding, minOutstanding, nextPermitNumber>>

BoundedNext == \E c \in Holder : TakePermit(c) \/ ReleasePermit(c) \/ CancelTake(c)

BoundedFairness == \A c \in Holder : WF_boundedVars(ReleasePermit(c))

BoundedSpec == BoundedInit /\ [][BoundedNext]_boundedVars /\ BoundedFairness

-----------------------------------------------------------------------------
(* Properties                                                              *)

BoundedTypeOK ==
    /\ number \in [Holder -> 0 .. MaxPermit] /\ granted \subseteq Holder
    /\ outstanding \subseteq 1 .. MaxPermit /\ cancelled \in BOOLEAN
    /\ minOutstanding \in 0 .. MaxPermit /\ nextPermitNumber \in 0 .. MaxPermit

\* "a bound on how many locks can be taken from the oldest outstanding lock":
\* a permit that is held is at most BoundedPermits newer than the
\* UnrestrictedPermits-th oldest one outstanding.
BoundKept ==
    Cardinality(outstanding) >= UnrestrictedPermits =>
        \A c \in granted : number[c] <= BoundedPermits + OldestBound(outstanding, nextPermitNumber)

\* A take returns once the permits before it are released, unless an earlier
\* take was cancelled while it waited: that one's number is never released.
TakeReturns == \A c \in Holder : number[c] > 0 ~> (c \in granted \/ number[c] = 0 \/ cancelled)
=============================================================================
