------------------------------ MODULE Planner ------------------------------
(***************************************************************************)
(* One invocation of the HTN planner: tw_plan and the depth-first search   *)
(* tw_seek_plan (taskweft_nif/standalone/tw_planner.hpp).  The recursion   *)
(* is a stack of frames, one per active call of tw_seek_plan; the memo     *)
(* caches and the method scores are shared by all of them.                 *)
(*                                                                         *)
(* A Call is a ground command (name and arguments), a Binding a ground     *)
(* goal binding (var, key, desired).  Memo keys are the pairs themselves:  *)
(* collisions of the 64-bit hashes are left out.                           *)
(***************************************************************************)
EXTENDS Integers, Sequences

CONSTANTS
    Domain, State, Call, Binding,
    Problem,               \* the [dom, state, tasks, blacklist] tuples to plan
    IsAction(_, _),        \* domain.actions.count(call.name)
    Effect(_, _, _),       \* the action function: a state or Nil
    MethodCount(_, _),     \* the number of alternatives for a call or binding
    Method(_, _, _, _),    \* the alternative's subtasks in a state, or Nil
    Holds(_, _),           \* TwGoalBinding::satisfied
    MaxMethods,            \* bound: alternatives per method
    MaxDepth,              \* TW_MAX_DEPTH
    Nil

Key == Call \cup Binding

Task == ({"call"} \X Call) \cup ({"goal", "multigoal"} \X Seq(Binding))

\* A command of a plan, with the states around it.
Step == [call : Call, pre : State, post : State]

ASSUME PlannerAssumption ==
    /\ MaxDepth \in Nat /\ MaxMethods \in Nat
    /\ Nil \notin State /\ Nil \notin Seq(Call)
    /\ \A p \in Problem :
          /\ p.dom \in Domain /\ p.state \in State
          /\ p.tasks \in Seq(Task) /\ p.blacklist \subseteq Call
    /\ \A d \in Domain, c \in Call, s \in State : Effect(d, c, s) \in State \cup {Nil}
    /\ \A d \in Domain, k \in Key : MethodCount(d, k) \in 0 .. MaxMethods
    /\ \A d \in Domain, k \in Key, s \in State :
          \A i \in 1 .. MethodCount(d, k) : Method(d, k, i, s) \in Seq(Call) \cup {Nil}

VARIABLES
    problem,       \* the arguments of tw_plan
    stack,         \* frames of tw_seek_plan, the innermost last
    ret,           \* what the innermost call just returned: None, Fail or a plan
    failCache, successCache, scores,
    outcome,       \* running, plan, no_plan or budget
    result,        \* the plan returned by tw_plan
    starved        \* history: a call failed because its fuel was spent

vars == <<problem, stack, ret, failCache, successCache, scores, outcome, result, starved>>

None == [kind |-> "none", plan |-> <<>>]
Fail == [kind |-> "fail", plan |-> <<>>]
Plan(p) == [kind |-> "plan", plan |-> p]

Top == stack[Len(stack)]
Below == SubSeq(stack, 1, Len(stack) - 1)
D == problem.dom

-----------------------------------------------------------------------------
(* Goals, oracle and plausibility                                          *)

IsGoal(t) == t[1] \in {"goal", "multigoal"}

Unmet(t, s) == {i \in 1 .. Len(t[2]) : ~Holds(t[2][i], s)}

Satisfied(t, s) == Unmet(t, s) = {}

\* unmet[0]
FirstUnmet(t, s) == t[2][CHOOSE i \in Unmet(t, s) : \A j \in Unmet(t, s) : i <= j]

HasMethods(k) == MethodCount(D, k) > 0

\* What the witness oracle decides by: the call itself, or the first unmet
\* binding of a unigoal.  An unmet multigoal counts for nothing.
Certified(t, s) ==
    \/ t[1] = "call" /\ ~IsAction(D, t[2]) /\ HasMethods(t[2])
    \/ t[1] = "goal" /\ ~Satisfied(t, s) /\ HasMethods(FirstUnmet(t, s))

Skipped(t, s) ==
    \/ t[1] = "call" /\ ~IsAction(D, t[2]) /\ ~HasMethods(t[2])
    \/ t[1] = "goal" /\ ~Satisfied(t, s) /\ ~HasMethods(FirstUnmet(t, s))

\* tw_witness_oracle_goal_reach_cached from tasks[idx] on.
Witness(tasks, idx, s) ==
    \/ \E i \in idx .. Len(tasks) : Certified(tasks[i], s)
    \/ \A i \in idx .. Len(tasks) : ~Skipped(tasks[i], s)

\* Faulty probe: an unmet goal is never plausible.
ShallowPlausibleMet(t, s) ==
    \/ t[1] = "call" /\ IsAction(D, t[2]) /\ t[2] \notin problem.blacklist
    \/ t[1] = "call" /\ ~IsAction(D, t[2]) /\ HasMethods(t[2])
    \/ IsGoal(t) /\ Satisfied(t, s)

ShallowPlausible(t, s) ==
    \/ t[1] = "call" /\ IsAction(D, t[2]) /\ t[2] \notin problem.blacklist
    \/ t[1] = "call" /\ ~IsAction(D, t[2]) /\ HasMethods(t[2])
    \/ IsGoal(t) /\ (Satisfied(t, s) \/ \E i \in Unmet(t, s) : HasMethods(t[2][i]))

\* tw_prefix_plausible probes the first two tasks.
PrefixPlausible(tasks, s) ==
    \A i \in 1 .. Len(tasks) : i <= 2 => ShallowPlausible(tasks[i], s)

\* tw_order_methods: the first best-scored alternative, if its score is
\* positive, swaps places with the first one.
Order(k) ==
    LET n    == MethodCount(D, k)
        Best == {i \in 1 .. n : /\ scores[k, i] > 0
                                /\ \A j \in 1 .. n : scores[k, i] >= scores[k, j]
                                /\ \A j \in 1 .. i - 1 : scores[k, i] > scores[k, j]}
        best == CHOOSE i \in Best : TRUE
    IN  [i \in 1 .. n |->
            IF Best = {} \/ i \notin {1, best} THEN i
            ELSE IF i = 1 THEN best ELSE 1]

\* tw_note_method_result
Noted(k, i, success) ==
    LET moved == scores[k, i] + (IF success THEN 2 ELSE -1)
        score == IF moved > 64 THEN 64 ELSE IF moved < -64 THEN -64 ELSE moved
    IN  [scores EXCEPT ![<<k, i>>] = score]

-----------------------------------------------------------------------------
(* Frames                                                                  *)

\* A call of tw_seek_plan on entry.
Frame(s, tasks, fuel) ==
    [mode |-> "enter", entry |-> s, tasks |-> tasks, fuel |-> fuel,
     cur |-> s, idx |-> 1, prefix |-> <<>>,
     order |-> <<>>,        \* the alternatives to try, in order
     at |-> 0,              \* the alternative tried now
     seen |-> {}]           \* seen_decompositions

SetTop(f) == stack' = [stack EXCEPT ![Len(stack)] = f]

Head1 == Top.tasks[Top.idx]

Remaining == SubSeq(Top.tasks, Top.idx + 1, Len(Top.tasks))

Calls(subs) == [i \in 1 .. Len(subs) |-> <<"call", subs[i]>>]

\* The alternatives are keyed by the call, or by the first unmet binding.
BranchKey ==
    IF Head1[1] = "call" THEN Head1[2] ELSE FirstUnmet(Head1, Top.cur)

\* The innermost call returns r to the frame below.
Return(r) ==
    /\ stack' = Below
    /\ ret' = r
    /\ UNCHANGED <<problem, outcome, result>>

MarkFail ==
    /\ failCache' = failCache \cup {<<Top.entry, Top.tasks>>}
    /\ UNCHANGED successCache
    /\ Return(Fail)

MarkSuccess(plan) ==
    /\ successCache' = {e \in successCache : <<e.state, e.tasks>> # <<Top.entry, Top.tasks>>}
                       \cup {[state |-> Top.entry, tasks |-> Top.tasks, plan |-> plan]}
    /\ UNCHANGED failCache
    /\ Return(Plan(plan))

At(mode) == outcome = "running" /\ stack # <<>> /\ ret = None /\ Top.mode = mode

caches == <<failCache, successCache>>

\* tw_plan
Init ==
    /\ problem \in Problem
    /\ stack = <<Frame(problem.state, problem.tasks, MaxDepth)>>
    /\ ret = None
    /\ failCache = {} /\ successCache = {}
    /\ scores = [k \in Key \X (1 .. MaxMethods) |-> 0]
    /\ outcome = "running" /\ result = <<>> /\ starved = FALSE

-----------------------------------------------------------------------------
(* Entering a call: nothing to do, a memo hit, or the fast path            *)

EnterEmpty ==
    /\ At("enter") /\ Top.tasks = <<>>
    /\ Return(Plan(<<>>))
    /\ UNCHANGED <<caches, scores, starved>>

EnterFailed ==
    /\ At("enter") /\ Top.tasks # <<>>
    /\ <<Top.entry, Top.tasks>> \in failCache
    /\ Return(Fail)
    /\ UNCHANGED <<caches, scores, starved>>

\* Neither cache knows the subproblem.  A hit in the success cache has no
\* action: SuccessesUnused says that there is none.
Enter ==
    /\ At("enter") /\ Top.tasks # <<>>
    /\ <<Top.entry, Top.tasks>> \notin failCache
    /\ \A e \in successCache : <<e.state, e.tasks>> # <<Top.entry, Top.tasks>>
    /\ SetTop([Top EXCEPT !.mode = "walk"])
    /\ UNCHANGED <<problem, ret, caches, scores, outcome, result, starved>>

-----------------------------------------------------------------------------
(* The fast path: satisfied goals and primitive actions                    *)

WalkDone ==
    /\ At("walk") /\ Top.idx > Len(Top.tasks)
    /\ MarkSuccess(Top.prefix)
    /\ UNCHANGED <<scores, starved>>

Walking == At("walk") /\ Top.idx <= Len(Top.tasks)

WalkHopeless ==
    /\ Walking /\ ~Witness(Top.tasks, Top.idx, Top.cur)
    /\ MarkFail
    /\ UNCHANGED <<scores, starved>>

\* The task at tasks[idx], once the oracle has let it through.
Facing == Walking /\ Witness(Top.tasks, Top.idx, Top.cur)

WalkGoal ==
    /\ Facing /\ IsGoal(Head1) /\ Satisfied(Head1, Top.cur)
    /\ SetTop([Top EXCEPT !.idx = @ + 1])
    /\ UNCHANGED <<problem, ret, caches, scores, outcome, result, starved>>

FacingAction == Facing /\ Head1[1] = "call" /\ IsAction(D, Head1[2])

\* Faulty walk: the blacklist is not consulted.
BlockedNever == Effect(D, Head1[2], Top.cur) = Nil

Blocked ==
    \/ Head1[2] \in problem.blacklist
    \/ Effect(D, Head1[2], Top.cur) = Nil

WalkBlocked ==
    /\ FacingAction /\ Blocked
    /\ MarkFail
    /\ UNCHANGED <<scores, starved>>

WalkAction ==
    /\ FacingAction /\ ~Blocked
    /\ LET post == Effect(D, Head1[2], Top.cur)
           step == [call |-> Head1[2], pre |-> Top.cur, post |-> post]
       IN  SetTop([Top EXCEPT !.prefix = Append(@, step), !.cur = post, !.idx = @ + 1])
    /\ UNCHANGED <<problem, ret, caches, scores, outcome, result, starved>>

Branching ==
    /\ Facing
    /\ \/ IsGoal(Head1) /\ ~Satisfied(Head1, Top.cur)
       \/ Head1[1] = "call" /\ ~IsAction(D, Head1[2])

OutOfFuel ==
    /\ Branching /\ Top.fuel = 0
    /\ MarkFail
    /\ starved' = TRUE
    /\ UNCHANGED scores

\* A multigoal's alternatives are its bindings, in order; the ones already
\* met are passed over.
Alternatives ==
    IF Head1[1] = "multigoal" THEN [i \in 1 .. Len(Head1[2]) |-> i]
    ELSE Order(BranchKey)

Branch ==
    /\ Branching /\ Top.fuel > 0
    /\ SetTop([Top EXCEPT !.mode = "branch", !.order = Alternatives])
    /\ UNCHANGED <<problem, ret, caches, scores, outcome, result, starved>>

-----------------------------------------------------------------------------
(* The branching search                                                    *)

\* The new task list of alternative i, or Nil when the method does not apply.
Decomposition(i) ==
    LET subs == Method(D, BranchKey, i, Top.cur)
    IN  CASE Head1[1] = "multigoal" ->
                 <<<<"goal", <<Head1[2][i]>>>>, Head1>> \o Remaining
          [] Head1[1] # "multigoal" /\ subs = Nil -> Nil
          [] Head1[1] = "goal" /\ subs # Nil -> Calls(subs) \o <<Head1>> \o Remaining
          [] OTHER -> Calls(subs) \o Remaining

Choosing == At("branch") /\ Top.at < Len(Top.order)

NextTasks == Decomposition(Top.order[Top.at + 1])

\* A method that does not apply, repeats a decomposition or is implausible is
\* passed over.
PassedMethod ==
    /\ Head1[1] # "multigoal"
    /\ \/ NextTasks \in Top.seen \cup {Nil}
       \/ NextTasks # Nil /\ ~PrefixPlausible(NextTasks, Top.cur)

PassedBinding ==
    Head1[1] = "multigoal" /\ Holds(Head1[2][Top.order[Top.at + 1]], Top.cur)

Passed == PassedMethod \/ PassedBinding

\* Faulty loop: a passed-over method is looked at again.
PassStuck ==
    /\ Choosing /\ Passed
    /\ SetTop([Top EXCEPT !.seen = @ \cup ({NextTasks} \ {Nil})])
    /\ UNCHANGED <<problem, ret, caches, scores, outcome, result, starved>>

Pass ==
    /\ Choosing /\ Passed
    /\ SetTop([Top EXCEPT !.at = @ + 1, !.seen = @ \cup ({NextTasks} \ {Nil})])
    /\ UNCHANGED <<problem, ret, caches, scores, outcome, result, starved>>

Descend ==
    /\ Choosing /\ ~Passed
    /\ stack' = Append(
          [stack EXCEPT ![Len(stack)] =
              [Top EXCEPT !.mode = "wait", !.at = @ + 1, !.seen = @ \cup {NextTasks}]],
          Frame(Top.cur, NextTasks, Top.fuel - 1))
    /\ UNCHANGED <<problem, ret, caches, scores, outcome, result, starved>>

Exhausted ==
    /\ At("branch") /\ Top.at >= Len(Top.order)
    /\ MarkFail
    /\ UNCHANGED <<scores, starved>>

\* The recursive call has returned to the frame that waits for it.
Resumed(kind) ==
    /\ outcome = "running" /\ stack # <<>> /\ Top.mode = "wait" /\ ret.kind = kind

Score(success) ==
    IF Head1[1] = "multigoal" THEN scores
    ELSE Noted(BranchKey, Top.order[Top.at], success)

TryNext ==
    /\ Resumed("fail")
    /\ SetTop([Top EXCEPT !.mode = "branch"])
    /\ ret' = None
    /\ scores' = Score(FALSE)
    /\ UNCHANGED <<problem, caches, outcome, result, starved>>

Joined == Top.prefix \o ret.plan

Finish ==
    /\ Resumed("plan")
    /\ MarkSuccess(Joined)
    /\ scores' = Score(TRUE)
    /\ UNCHANGED starved

-----------------------------------------------------------------------------
\* The outermost call has returned.
Deliver ==
    /\ outcome = "running" /\ stack = <<>>
    /\ outcome' = IF ret.kind = "plan" THEN "plan" ELSE "no_plan"
    /\ result' = ret.plan
    /\ UNCHANGED <<problem, stack, ret, caches, scores, starved>>

\* budget.exceeded() may fire on entry and at every task of the fast path.
Timeout ==
    /\ At("enter") \/ At("walk")
    /\ outcome' = "budget"
    /\ UNCHANGED <<problem, stack, ret, caches, scores, result, starved>>

Search ==
    \/ EnterEmpty \/ EnterFailed \/ Enter
    \/ WalkDone \/ WalkHopeless \/ WalkGoal \/ WalkBlocked \/ WalkAction
    \/ OutOfFuel \/ Branch
    \/ Pass \/ Descend \/ Exhausted \/ TryNext \/ Finish
    \/ Deliver

Next == Search \/ Timeout

Spec == Init /\ [][Next]_vars /\ WF_vars(Search)

-----------------------------------------------------------------------------
(* Properties                                                              *)

FrameType ==
    [mode : {"enter", "walk", "branch", "wait"}, entry : State, tasks : Seq(Task),
     fuel : Nat, cur : State, idx : Nat \ {0}, prefix : Seq(Step),
     order : Seq(Nat), at : Nat, seen : SUBSET Seq(Task)]

\* Every variable keeps its type: frames hold states the actions produced, and
\* fuel never goes below zero.
TypeOK ==
    /\ problem \in Problem
    /\ stack \in Seq(FrameType)
    /\ ret \in [kind : {"none", "fail", "plan"}, plan : Seq(Step)]
    /\ failCache \subseteq State \X Seq(Task)
    /\ successCache \subseteq [state : State, tasks : Seq(Task), plan : Seq(Step)]
    /\ outcome \in {"idle", "running", "plan", "no_plan", "budget"}
    /\ result \in Seq(Step) /\ starved \in BOOLEAN

\* p is a run of applicable, permitted commands of problem pr from s to t.
Executes(pr, p, s, t) ==
    /\ p = <<>> => s = t
    /\ p # <<>> => p[1].pre = s /\ p[Len(p)].post = t
    /\ \A i \in 1 .. Len(p) :
          /\ IsAction(pr.dom, p[i].call) /\ p[i].call \notin pr.blacklist
          /\ p[i].post = Effect(pr.dom, p[i].call, p[i].pre)
    /\ \A i \in 1 .. Len(p) - 1 : p[i + 1].pre = p[i].post

\* A goal at the end of the task list holds in t.
LastGoalMet(tasks, t) ==
    tasks # <<>> /\ IsGoal(tasks[Len(tasks)]) => Satisfied(tasks[Len(tasks)], t)

Solves(pr, p, s, tasks) ==
    \E t \in State : Executes(pr, p, s, t) /\ LastGoalMet(tasks, t)

\* A plan that tw_plan returns can be executed from the initial state command
\* by command, uses no blacklisted command, and leaves the goal at the end of
\* the task list satisfied, whatever mix of fast path, branching and memoised
\* results it was put together from.
PlanExecutes == outcome = "plan" => Solves(problem, result, problem.state, problem.tasks)

\* Each memoised plan solves the subproblem it is stored under, the commands
\* of the fast path included, so that a hit could replace the search.
MemoSound == \A e \in successCache : Solves(problem, e.plan, e.state, e.tasks)

\* The success cache is written but never hit: it is empty whenever a
\* subproblem is looked up, since the first plan found is carried to the top.
SuccessesUnused == At("enter") => successCache = {}

\* A search ends: with a plan, without one, or out of time.
Terminates == outcome = "running" ~> outcome # "running"
=============================================================================
