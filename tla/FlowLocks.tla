----------------------------- MODULE FlowLocks -----------------------------
(***************************************************************************)
(* The locks Flow offers actors on one thread; a behaviour uses one of     *)
(* them.                                                                   *)
(***************************************************************************)
EXTENDS FlowLock, BoundedFlowLock, PriorityMultiLock

VARIABLE lock

lockVars == <<lock, flowLockVars, boundedVars, pmlVars>>

LocksInit ==
    /\ lock \in {"FlowLock", "BoundedFlowLock", "PriorityMultiLock"}
    /\ FlowLockInit /\ BoundedInit /\ PmlInit

UseFlowLock ==
    /\ lock = "FlowLock" /\ FlowLockNext
    /\ UNCHANGED <<lock, boundedVars, pmlVars>>

UseBoundedFlowLock ==
    /\ lock = "BoundedFlowLock" /\ BoundedNext
    /\ UNCHANGED <<lock, flowLockVars, pmlVars>>

UsePriorityMultiLock ==
    /\ lock = "PriorityMultiLock" /\ PmlNext
    /\ UNCHANGED <<lock, flowLockVars, boundedVars>>

LocksNext == UseFlowLock \/ UseBoundedFlowLock \/ UsePriorityMultiLock

-----------------------------------------------------------------------------
(* Properties of all of them                                               *)

\* No permit or slot leaks, whatever is cancelled, killed, halted or called
\* again from inside a grant: every variable keeps its type, and the counters of
\* FlowLock and PriorityMultiLock agree with what they count.
AccountsKept ==
    /\ FlowLockTypeOK /\ BoundedTypeOK /\ PmlTypeOK
    /\ PermitsAccounted /\ SlotsAccounted

\* No lock is held by more than it was made for: "a limited number of clients",
\* "a bound on how many locks can be taken from the oldest outstanding lock",
\* "a concurrent holder limit".  Two excesses are allowed: one client of a
\* FlowLock that asks for more permits than there are, and one more holder of a
\* PriorityMultiLock after a continuation has locked again.
LimitsKept == LimitKept /\ BoundKept /\ HolderLimit

\* No permit or slot lies idle while someone waits that it would do for, and the
\* runner that has a slot to give finds the waiter to give it to.
NoneIdle == NoIdlePermit /\ NoIdleSlot /\ ScanFinds
=============================================================================
