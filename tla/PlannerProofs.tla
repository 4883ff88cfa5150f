--------------------------- MODULE PlannerProofs ---------------------------
(***************************************************************************)
(* The plans of tw_plan execute and reach their goals, for every domain,   *)
(* problem, depth bound and timing of the budget.  Plans are built from    *)
(* two sources (the fast path and recursive calls), so the                 *)
(* inductive invariant says of each frame that its prefix leads from its   *)
(* entry state to its current one, and of neighbouring frames that what    *)
(* solves the inner call's tasks solves the outer one's.                   *)
(***************************************************************************)
EXTENDS Planner, TLAPS, WellFoundedInduction, SequenceTheorems

-----------------------------------------------------------------------------
(* Frames and the inductive invariant                                      *)

KeyOf(f) ==
    IF f.tasks[f.idx][1] = "call" THEN f.tasks[f.idx][2]
    ELSE FirstUnmet(f.tasks[f.idx], f.cur)

Width(pr, f) ==
    IF f.tasks[f.idx][1] = "multigoal" THEN Len(f.tasks[f.idx][2])
    ELSE MethodCount(pr.dom, KeyOf(f))

BranchOK(pr, f) ==
    /\ f.fuel > 0
    /\ f.idx <= Len(f.tasks)
    /\ IsGoal(f.tasks[f.idx]) => ~Satisfied(f.tasks[f.idx], f.cur)
    /\ \A j \in 1 .. Len(f.order) : f.order[j] \in 1 .. Width(pr, f)

FrameOK(pr, f) ==
    /\ Executes(pr, f.prefix, f.entry, f.cur)
    /\ f.idx <= Len(f.tasks) + 1
    /\ f.idx > 1 /\ IsGoal(f.tasks[f.idx - 1]) => Satisfied(f.tasks[f.idx - 1], f.cur)
    /\ f.mode \in {"branch", "wait"} => BranchOK(pr, f)

\* What solves the inner task list from g's entry solves the rest of f's.
Link(f, g) ==
    /\ g.entry = f.cur
    /\ \A t \in State : LastGoalMet(g.tasks, t) => LastGoalMet(f.tasks, t)

StackOK ==
    /\ \A k \in 1 .. Len(stack) : FrameOK(problem, stack[k])
    /\ \A k \in 1 .. Len(stack) - 1 : Link(stack[k], stack[k + 1])
    /\ stack # <<>> => stack[1].entry = problem.state /\ stack[1].tasks = problem.tasks

RetOK ==
    ret.kind = "plan" =>
        IF stack = <<>> THEN Solves(problem, ret.plan, problem.state, problem.tasks)
        ELSE Solves(problem, ret.plan, Top.cur, Top.tasks)

PlannerInv == TypeOK /\ StackOK /\ RetOK /\ MemoSound /\ PlanExecutes

-----------------------------------------------------------------------------
(* Plans                                                                   *)

\* A plan from s to t followed by one from t to u leads from s to u.
LEMMA ExecJoin ==
    ASSUME NEW pr, NEW p \in Seq(Step), NEW q \in Seq(Step), NEW s, NEW t, NEW u,
           Executes(pr, p, s, t), Executes(pr, q, t, u)
    PROVE  Executes(pr, p \o q, s, u)
<1>1. CASE p = <<>>
  <2>1. p \o q = q /\ s = t
    BY <1>1 DEF Executes
  <2> QED BY <2>1
<1>2. CASE p # <<>> /\ q = <<>>
  <2>1. p \o q = p /\ t = u
    BY <1>2 DEF Executes
  <2> QED BY <2>1
<1>3. CASE p # <<>> /\ q # <<>>
  <2> DEFINE r == p \o q
  <2>1. /\ Len(p) \in Nat \ {0} /\ Len(q) \in Nat \ {0}
        /\ Len(r) = Len(p) + Len(q) /\ r \in Seq(Step)
        /\ \A i \in 1 .. Len(p) : r[i] = p[i]
        /\ \A i \in 1 .. Len(r) : i > Len(p) => r[i] = q[i - Len(p)]
    BY <1>3
  <2> HIDE DEF r
  <2>2. r # <<>> /\ r[1].pre = s /\ r[Len(r)].post = u
    BY <1>3, <2>1 DEF Executes
  <2>3. ASSUME NEW i \in 1 .. Len(r)
        PROVE  /\ IsAction(pr.dom, r[i].call) /\ r[i].call \notin pr.blacklist
               /\ r[i].post = Effect(pr.dom, r[i].call, r[i].pre)
    <3>1. CASE i <= Len(p)
      BY <2>1, <3>1 DEF Executes
    <3>2. CASE i > Len(p)
      <4>1. i - Len(p) \in 1 .. Len(q) /\ r[i] = q[i - Len(p)]
        BY <2>1, <3>2
      <4> QED BY <4>1 DEF Executes
    <3> QED BY <2>1, <3>1, <3>2
  <2>4. ASSUME NEW i \in 1 .. Len(r) - 1
        PROVE  r[i + 1].pre = r[i].post
    <3>1. CASE i < Len(p)
      <4>1. r[i] = p[i] /\ r[i + 1] = p[i + 1] /\ i \in 1 .. Len(p) - 1
        BY <2>1, <3>1
      <4> QED BY <4>1 DEF Executes
    <3>2. CASE i = Len(p)
      <4>1. r[i] = p[Len(p)] /\ r[i + 1] = q[1]
        BY <2>1, <3>2
      <4> QED BY <1>3, <4>1 DEF Executes
    <3>3. CASE i > Len(p)
      <4>1. /\ i - Len(p) \in 1 .. Len(q) - 1
            /\ r[i] = q[i - Len(p)] /\ r[i + 1] = q[(i - Len(p)) + 1]
        BY <2>1, <3>3
      <4> QED BY <4>1 DEF Executes
    <3> QED BY <2>1, <3>1, <3>2, <3>3
  <2> QED BY <2>2, <2>3, <2>4 DEF Executes, r
<1> QED BY <1>1, <1>2, <1>3

\* One more applicable command extends a plan.
LEMMA ExecStep ==
    ASSUME NEW pr, NEW p \in Seq(Step), NEW e \in Step, NEW s,
           Executes(pr, p, s, e.pre),
           IsAction(pr.dom, e.call), e.call \notin pr.blacklist,
           e.post = Effect(pr.dom, e.call, e.pre)
    PROVE  Executes(pr, Append(p, e), s, e.post)
<1>1. Executes(pr, <<e>>, e.pre, e.post)
  BY DEF Executes
<1>2. Append(p, e) = p \o <<e>> /\ <<e>> \in Seq(Step)
  OBVIOUS
<1> QED BY <1>1, <1>2, ExecJoin

\* The empty plan stays where it is.
LEMMA ExecEmpty == ASSUME NEW pr, NEW s PROVE Executes(pr, <<>>, s, s)
  BY DEF Executes

-----------------------------------------------------------------------------
(* Tasks                                                                   *)

\* The first unmet binding of an unmet goal is one of its bindings.
LEMMA FirstUnmetBinding ==
    ASSUME NEW t \in Task, IsGoal(t), NEW s, ~Satisfied(t, s)
    PROVE  FirstUnmet(t, s) \in Binding
<1>1. t[2] \in Seq(Binding)
  BY DEF Task, IsGoal
<1>2. Unmet(t, s) \subseteq Nat /\ Unmet(t, s) # {}
  BY <1>1 DEF Unmet, Satisfied
<1> DEFINE R == OpToRel(<, Nat)
<1>3. IsWellFoundedOn(R, Nat)
  BY NatLessThanWellFounded
<1>4. \A i, j \in Nat : i < j => <<i, j>> \in R
  BY DEF OpToRel
<1> HIDE DEF R
<1>5. \E i \in Unmet(t, s) : \A j \in Unmet(t, s) : ~(<<j, i>> \in R)
  BY <1>2, <1>3, WFMin
<1>6. \E i \in Unmet(t, s) : \A j \in Unmet(t, s) : i <= j
  <2>1. PICK i \in Unmet(t, s) : \A j \in Unmet(t, s) : ~(<<j, i>> \in R)
    BY <1>5
  <2>2. \A j \in Unmet(t, s) : ~(j < i)
    BY <1>2, <1>4, <2>1, Zenon
  <2>3. i \in Nat /\ \A j \in Unmet(t, s) : j \in Nat
    BY <1>2
  <2>4. \A j \in Unmet(t, s) : i <= j
    BY <2>2, <2>3
  <2> QED BY <2>4
<1> DEFINE first == CHOOSE i \in Unmet(t, s) : \A j \in Unmet(t, s) : i <= j
<1>7. first \in Unmet(t, s)
  BY <1>6, Zenon
<1>8. first \in 1 .. Len(t[2])
  BY <1>7 DEF Unmet
<1>9. FirstUnmet(t, s) = t[2][first]
  BY DEF FirstUnmet
<1> HIDE DEF first
<1> QED BY <1>1, <1>8, <1>9

\* A task list ending in b has b's last task.
LEMMA LastOfJoin ==
    ASSUME NEW a \in Seq(Task), NEW b \in Seq(Task), b # <<>>
    PROVE  a \o b # <<>> /\ (a \o b)[Len(a \o b)] = b[Len(b)] /\ a \o b \in Seq(Task)
<1>1. /\ Len(a) \in Nat /\ Len(b) \in Nat \ {0}
      /\ Len(a \o b) = Len(a) + Len(b) /\ a \o b \in Seq(Task)
  OBVIOUS
<1>2. \A i \in 1 .. Len(a) + Len(b) : i > Len(a) => (a \o b)[i] = b[i - Len(a)]
  OBVIOUS
<1> QED BY <1>1, <1>2

\* The rest of a task list is a task list with the same end.
LEMMA RestOfTasks ==
    ASSUME NEW ts \in Seq(Task), NEW i \in 1 .. Len(ts)
    PROVE  LET r == SubSeq(ts, i + 1, Len(ts))
           IN  /\ r \in Seq(Task)
               /\ r = <<>> => i = Len(ts)
               /\ r # <<>> => r[Len(r)] = ts[Len(ts)]
<1> DEFINE r == SubSeq(ts, i + 1, Len(ts))
<1>1. /\ r \in Seq(Task) /\ Len(r) = Len(ts) - i
      /\ \A j \in 1 .. Len(ts) - i : r[j] = ts[i + j]
      /\ Len(ts) \in Nat /\ i \in Nat /\ i <= Len(ts)
  OBVIOUS
<1> HIDE DEF r
<1>2. r = <<>> => i = Len(ts)
  BY <1>1
<1>3. r # <<>> => Len(r) \in 1 .. Len(ts) - i
  BY <1>1
<1>4. i + (Len(ts) - i) = Len(ts)
  BY <1>1
<1>5. r # <<>> => r[Len(r)] = ts[Len(ts)]
  BY <1>1, <1>3, <1>4
<1> QED BY <1>1, <1>2, <1>5 DEF r

-----------------------------------------------------------------------------
(* The frame at the top of the stack                                       *)

\* The innermost frame is a frame of the stack.
LEMMA TopFrame ==
    ASSUME TypeOK, StackOK, stack # <<>>
    PROVE  /\ Top \in FrameType /\ FrameOK(problem, Top)
           /\ Len(stack) \in 1 .. Len(stack)
           /\ problem \in Problem /\ problem.dom \in Domain
<1>1. Len(stack) \in 1 .. Len(stack)
  BY DEF TypeOK
<1>2. problem \in Problem /\ problem.dom \in Domain
  BY PlannerAssumption DEF TypeOK
<1> QED BY <1>1, <1>2 DEF TypeOK, StackOK, Top

\* In a branching frame the alternatives are alternatives of a known key.
LEMMA BranchKeyKnown ==
    ASSUME NEW f \in FrameType, NEW pr, BranchOK(pr, f),
           f.tasks[f.idx][1] # "multigoal"
    PROVE  KeyOf(f) \in Key
<1>1. f.tasks \in Seq(Task) /\ f.idx \in 1 .. Len(f.tasks)
  BY DEF FrameType, BranchOK
<1> DEFINE t == f.tasks[f.idx]
<1>2. t \in Task
  BY <1>1
<1>3. CASE t[1] = "call"
  BY <1>2, <1>3 DEF Task, Key, KeyOf
<1>4. CASE t[1] = "goal"
  <2>1. IsGoal(t) /\ ~Satisfied(t, f.cur)
    BY <1>4 DEF IsGoal, BranchOK
  <2>2. FirstUnmet(t, f.cur) \in Binding
    BY <1>2, <2>1, FirstUnmetBinding
  <2> QED BY <1>4, <2>2 DEF KeyOf, Key
<1> QED BY <1>2, <1>3, <1>4 DEF Task

\* The next task list is a task list, and what meets its last goal meets the
\* last goal of the list it came from: an unmet goal is queued again behind
\* its subtasks.
LEMMA DecompositionSound ==
    ASSUME TypeOK, StackOK, stack # <<>>, Top.mode = "branch", Top.at < Len(Top.order),
           Head1[1] = "multigoal" \/ NextTasks # Nil
    PROVE  /\ NextTasks \in Seq(Task)
           /\ \A t \in State : LastGoalMet(NextTasks, t) => LastGoalMet(Top.tasks, t)
<1>1. /\ Top \in FrameType /\ BranchOK(problem, Top) /\ problem.dom \in Domain
  BY TopFrame DEF FrameOK
<1>2. /\ Top.tasks \in Seq(Task) /\ Top.idx \in 1 .. Len(Top.tasks)
      /\ Top.at + 1 \in 1 .. Len(Top.order) /\ Top.cur \in State
  BY <1>1 DEF FrameType, BranchOK
<1> DEFINE i == Top.order[Top.at + 1]
           h == Head1
           r == Remaining
<1>3. h \in Task /\ i \in 1 .. Width(problem, Top)
  BY <1>1, <1>2 DEF Head1, BranchOK
<1>4. /\ r \in Seq(Task) /\ (r = <<>> => h = Top.tasks[Len(Top.tasks)])
      /\ (r # <<>> => r[Len(r)] = Top.tasks[Len(Top.tasks)])
  BY <1>2, RestOfTasks DEF Head1, Remaining
<1>5. Top.tasks # <<>>
  BY <1>2
<1>6. h[1] \in {"call", "goal", "multigoal"}
  BY <1>3 DEF Task
<1>7. CASE h[1] = "multigoal"
  <2> DEFINE a == <<<<"goal", <<h[2][i]>>>>>>
  <2>1. h[2] \in Seq(Binding) /\ i \in 1 .. Len(h[2])
    BY <1>3, <1>7 DEF Task, Width, Head1
  <2>2. a \in Seq(Task) /\ <<h>> \in Seq(Task)
    <3>1. <<h[2][i]>> \in Seq(Binding)
      BY <2>1
    <3>2. <<"goal", <<h[2][i]>>>> \in Task
      BY <3>1 DEF Task
    <3> QED BY <1>3, <3>2
  <2>3. NextTasks = <<<<"goal", <<h[2][i]>>>>, h>> \o r
    BY <1>7 DEF NextTasks, Decomposition
  <2> DEFINE b == <<<<"goal", <<h[2][i]>>>>, h>>
  <2>4. b \in Seq(Task) /\ b # <<>> /\ b[Len(b)] = h
    BY <2>2
  <2> HIDE DEF b
  <2>5. NextTasks = b \o r
    BY <2>3 DEF b
  <2>6. CASE r = <<>>
    <3>1. NextTasks = b
      BY <2>4, <2>5, <2>6
    <3> QED BY <1>4, <1>5, <2>4, <2>6, <3>1 DEF LastGoalMet
  <2>7. CASE r # <<>>
    <3>1. /\ NextTasks # <<>> /\ NextTasks \in Seq(Task)
          /\ NextTasks[Len(NextTasks)] = r[Len(r)]
      BY <1>4, <2>4, <2>5, <2>7, LastOfJoin
    <3> QED BY <1>4, <1>5, <2>7, <3>1 DEF LastGoalMet
  <2> QED BY <2>6, <2>7
<1>8. CASE h[1] # "multigoal"
  <2> DEFINE subs == Method(D, BranchKey, i, Top.cur)
  <2>1. KeyOf(Top) \in Key /\ BranchKey = KeyOf(Top)
    BY <1>1, <1>8, BranchKeyKnown DEF BranchKey, KeyOf, Head1
  <2>2. i \in 1 .. MethodCount(D, BranchKey)
    BY <1>3, <1>8, <2>1 DEF Width, Head1, D
  <2>3. subs \in Seq(Call) \cup {Nil}
    BY <1>1, <1>2, <2>1, <2>2, PlannerAssumption DEF D
  <2>4. subs # Nil
    BY <1>8 DEF NextTasks, Decomposition
  <2>5. Calls(subs) \in Seq(Task)
    BY <2>3, <2>4 DEF Calls, Task
  <2>6. CASE h[1] = "goal"
    <3>1. NextTasks = Calls(subs) \o <<h>> \o r
      BY <1>8, <2>4, <2>6 DEF NextTasks, Decomposition
    <3> DEFINE b == Calls(subs) \o <<h>>
    <3>2. b \in Seq(Task) /\ b # <<>> /\ b[Len(b)] = h
      <4>1. <<h>> \in Seq(Task) /\ <<h>> # <<>> /\ <<h>>[Len(<<h>>)] = h
        BY <1>3
      <4> QED BY <2>5, <4>1, LastOfJoin
    <3> HIDE DEF b
    <3>3. NextTasks = b \o r
      BY <3>1 DEF b
    <3>4. CASE r = <<>>
      <4>1. NextTasks = b
        BY <3>2, <3>3, <3>4
      <4> QED BY <1>4, <1>5, <3>2, <3>4, <4>1 DEF LastGoalMet
    <3>5. CASE r # <<>>
      <4>1. /\ NextTasks # <<>> /\ NextTasks \in Seq(Task)
            /\ NextTasks[Len(NextTasks)] = r[Len(r)]
        BY <1>4, <3>2, <3>3, <3>5, LastOfJoin
      <4> QED BY <1>4, <1>5, <3>5, <4>1 DEF LastGoalMet
    <3> QED BY <3>4, <3>5
  <2>7. CASE h[1] = "call"
    <3>1. NextTasks = Calls(subs) \o r
      BY <1>8, <2>4, <2>7 DEF NextTasks, Decomposition
    <3>2. CASE r = <<>>
      <4>1. NextTasks \in Seq(Task)
        BY <2>5, <3>1, <3>2
      <4>2. ~IsGoal(Top.tasks[Len(Top.tasks)])
        BY <1>4, <2>7, <3>2 DEF IsGoal
      <4> QED BY <4>1, <4>2 DEF LastGoalMet
    <3>3. CASE r # <<>>
      <4>1. /\ NextTasks # <<>> /\ NextTasks \in Seq(Task)
            /\ NextTasks[Len(NextTasks)] = r[Len(r)]
        BY <1>4, <2>5, <3>1, <3>3, LastOfJoin
      <4> QED BY <1>4, <1>5, <3>3, <4>1 DEF LastGoalMet
    <3> QED BY <3>2, <3>3
  <2> QED BY <1>6, <1>8, <2>6, <2>7
<1> QED BY <1>7, <1>8

-----------------------------------------------------------------------------
(* How the stack changes                                                   *)

Answer == [kind : {"none", "fail", "plan"}, plan : Seq(Step)]

\* Popping a frame that returns a solution of its own tasks.
LEMMA ReturnKeeps ==
    ASSUME TypeOK, StackOK, stack # <<>>, NEW r \in Answer,
           stack' = Below, ret' = r, problem' = problem,
           r.kind = "plan" => Solves(problem, r.plan, Top.entry, Top.tasks)
    PROVE  StackOK' /\ RetOK' /\ stack' \in Seq(FrameType)
<1> DEFINE n == Len(stack)
<1>1. n \in Nat \ {0} /\ n = Len(stack) /\ stack \in Seq(FrameType)
  BY DEF TypeOK
<1> HIDE DEF n
<1>2. /\ stack' \in Seq(FrameType) /\ Len(stack') = n - 1
      /\ \A k \in 1 .. n - 1 : stack'[k] = stack[k]
  <2>1. stack' = SubSeq(stack, 1, n - 1) /\ n - 1 \in 0 .. n /\ n = Len(stack)
    BY <1>1 DEF Below, n
  <2>2. \A i \in 1 .. n - 1 : stack[i] \in FrameType
    BY <1>1, <2>1
  <2> QED BY <1>1, <2>1, <2>2, SubSeqProperties
<1>3. StackOK'
  <2>1. \A k \in 1 .. Len(stack') : FrameOK(problem', stack'[k])
    BY <1>1, <1>2 DEF StackOK
  <2>2. \A k \in 1 .. Len(stack') - 1 : Link(stack'[k], stack'[k + 1])
    BY <1>1, <1>2 DEF StackOK
  <2>3. stack' # <<>> => /\ stack'[1].entry = problem'.state
                         /\ stack'[1].tasks = problem'.tasks
    BY <1>1, <1>2 DEF StackOK
  <2> QED BY <2>1, <2>2, <2>3 DEF StackOK
<1>4. ASSUME ret'.kind = "plan" PROVE RetOK'
  <2>1. Solves(problem, ret'.plan, Top.entry, Top.tasks)
    BY <1>4
  <2>2. CASE n = 1
    <3>1. stack' = <<>> /\ Top = stack[1]
      BY <1>1, <1>2, <2>2 DEF Top
    <3>2. Top.entry = problem.state /\ Top.tasks = problem.tasks
      BY <3>1 DEF StackOK
    <3>3. Solves(problem', ret'.plan, problem'.state, problem'.tasks)
      BY <2>1, <3>2
    <3> QED BY <3>1, <3>3 DEF RetOK
  <2>3. CASE n > 1
    <3>1. stack' # <<>> /\ Top' = stack[n - 1] /\ Top = stack[(n - 1) + 1]
      BY <1>1, <1>2, <2>3 DEF Top
    <3>2. Link(Top', Top)
      BY <1>1, <2>3, <3>1 DEF StackOK
    <3>3. Solves(problem', ret'.plan, Top'.cur, Top'.tasks)
      BY <2>1, <3>2 DEF Solves, Link
    <3> QED BY <3>1, <3>3 DEF RetOK
  <2> QED BY <1>1, <2>2, <2>3
<1>5. RetOK'
  BY <1>4 DEF RetOK
<1> QED BY <1>2, <1>3, <1>5

\* Updating the innermost frame without touching its entry state and tasks.
LEMMA SetTopKeeps ==
    ASSUME TypeOK, StackOK, stack # <<>>, NEW f \in FrameType, FrameOK(problem, f),
           f.entry = Top.entry, f.tasks = Top.tasks,
           SetTop(f), problem' = problem, ret'.kind # "plan"
    PROVE  StackOK' /\ RetOK' /\ stack' \in Seq(FrameType)
<1> DEFINE n == Len(stack)
<1>1. n \in Nat \ {0} /\ stack \in Seq(FrameType)
  BY DEF TypeOK
<1>2. /\ stack' \in Seq(FrameType) /\ Len(stack') = n /\ stack'[n] = f
      /\ \A k \in 1 .. n - 1 : stack'[k] = stack[k]
  BY <1>1 DEF SetTop
<1>3. \A k \in 1 .. n : stack'[k].entry = stack[k].entry /\ stack'[k].tasks = stack[k].tasks
  BY <1>1, <1>2 DEF Top
<1>4. \A k \in 1 .. Len(stack') : FrameOK(problem', stack'[k])
  BY <1>1, <1>2 DEF StackOK
<1>5. \A k \in 1 .. Len(stack') - 1 : Link(stack'[k], stack'[k + 1])
  <2> SUFFICES ASSUME NEW k \in 1 .. n - 1 PROVE Link(stack'[k], stack'[k + 1])
    BY <1>2
  <2>1. Link(stack[k], stack[k + 1]) /\ k + 1 \in 1 .. n
    BY <1>1 DEF StackOK
  <2> QED BY <1>2, <1>3, <2>1 DEF Link
<1>6. stack' # <<>> => stack'[1].entry = problem'.state /\ stack'[1].tasks = problem'.tasks
  BY <1>1, <1>2, <1>3 DEF StackOK
<1>7. StackOK'
  BY <1>4, <1>5, <1>6 DEF StackOK
<1>8. RetOK'
  BY DEF RetOK
<1> QED BY <1>2, <1>7, <1>8

\* A call on entry is a frame.
LEMMA FrameTyped ==
    ASSUME NEW s \in State, NEW tasks \in Seq(Task), NEW fuel \in Nat
    PROVE  Frame(s, tasks, fuel) \in FrameType
BY DEF Frame, FrameType

\* Pushing a call on the decomposition chosen in the innermost frame.
LEMMA DescendKeeps ==
    ASSUME TypeOK, StackOK, ret = None, Descend
    PROVE  StackOK' /\ RetOK' /\ stack' \in Seq(FrameType)
<1> DEFINE n == Len(stack)
           f == [Top EXCEPT !.mode = "wait", !.at = @ + 1, !.seen = @ \cup {NextTasks}]
           g == Frame(Top.cur, NextTasks, Top.fuel - 1)
<1>1. /\ stack # <<>> /\ Top.mode = "branch" /\ Top.at < Len(Top.order)
      /\ problem' = problem /\ ret' = ret
      /\ Head1[1] = "multigoal" \/ NextTasks # Nil
  <2>1. Choosing /\ ~PassedMethod /\ problem' = problem /\ ret' = ret
    BY DEF Descend, Passed
  <2>2. Head1[1] # "multigoal" => NextTasks # Nil
    BY <2>1 DEF PassedMethod
  <2> QED BY <2>1, <2>2 DEF Choosing, At
<1>2. /\ NextTasks \in Seq(Task)
      /\ \A t \in State : LastGoalMet(NextTasks, t) => LastGoalMet(Top.tasks, t)
  BY <1>1, DecompositionSound
<1>3. Top \in FrameType /\ FrameOK(problem, Top) /\ n \in 1 .. n
  BY <1>1, TopFrame
<1>4. f \in FrameType /\ f.entry = Top.entry /\ f.tasks = Top.tasks /\ f.cur = Top.cur
  <2>1. Top.seen \cup {NextTasks} \in SUBSET Seq(Task) /\ Top.at + 1 \in Nat
    BY <1>2, <1>3 DEF FrameType
  <2> QED BY <1>3, <2>1 DEF FrameType
<1>5. FrameOK(problem, f)
  <2>1. BranchOK(problem, Top)
    BY <1>1, <1>3 DEF FrameOK
  <2>2. /\ f.prefix = Top.prefix /\ f.idx = Top.idx /\ f.order = Top.order
    BY <1>3 DEF FrameType
  <2>3. BranchOK(problem, f)
    BY <1>4, <2>1, <2>2 DEF BranchOK, Width, KeyOf
  <2> QED BY <1>3, <1>4, <2>2, <2>3 DEF FrameOK
<1>6. Top.fuel > 0
  BY <1>1, <1>3 DEF FrameOK, BranchOK
<1>7. g \in FrameType
  <2>1. Top.cur \in State /\ Top.fuel - 1 \in Nat
    BY <1>3, <1>6 DEF FrameType
  <2> QED BY <1>2, <2>1, FrameTyped
<1>8. FrameOK(problem, g)
  <2>1. /\ g.prefix = <<>> /\ g.entry = Top.cur /\ g.cur = Top.cur /\ g.idx = 1
        /\ g.mode = "enter" /\ g.tasks = NextTasks
    BY DEF Frame
  <2>2. Executes(problem, g.prefix, g.entry, g.cur)
    BY <2>1, ExecEmpty
  <2>3. g.idx <= Len(g.tasks) + 1
    BY <1>2, <2>1
  <2>4. ~(g.idx > 1) /\ g.mode \notin {"branch", "wait"}
    BY <2>1
  <2> QED BY <2>2, <2>3, <2>4, Zenon DEF FrameOK
<1>9. Link(f, g)
  BY <1>2, <1>4 DEF Link, Frame
<1> HIDE DEF f, g
<1> DEFINE mid == [stack EXCEPT ![Len(stack)] = f]
<1>10. n = Len(stack) /\ n \in Nat \ {0} /\ stack \in Seq(FrameType)
  BY <1>3 DEF TypeOK
<1> HIDE DEF n
<1>11. /\ mid \in Seq(FrameType) /\ Len(mid) = n /\ mid[n] = f
       /\ \A k \in 1 .. n - 1 : mid[k] = stack[k]
  BY <1>4, <1>10
<1> HIDE DEF mid
<1>12. stack' = Append(mid, g)
  BY DEF Descend, mid, f, g
<1>13. /\ stack' \in Seq(FrameType) /\ Len(stack') = n + 1
       /\ stack'[n + 1] = g /\ stack'[n] = f
       /\ \A k \in 1 .. n - 1 : stack'[k] = stack[k]
  BY <1>7, <1>10, <1>11, <1>12
<1>14. \A k \in 1 .. Len(stack') : FrameOK(problem', stack'[k])
  <2> SUFFICES ASSUME NEW k \in 1 .. n + 1 PROVE FrameOK(problem, stack'[k])
    BY <1>1, <1>13
  <2>1. CASE k \in 1 .. n - 1
    BY <1>10, <1>13, <2>1 DEF StackOK
  <2>2. CASE k = n
    BY <1>5, <1>13, <2>2
  <2>3. CASE k = n + 1
    BY <1>8, <1>13, <2>3
  <2> QED BY <1>10, <2>1, <2>2, <2>3
<1>15. \A k \in 1 .. Len(stack') - 1 : Link(stack'[k], stack'[k + 1])
  <2> SUFFICES ASSUME NEW k \in 1 .. n PROVE Link(stack'[k], stack'[k + 1])
    BY <1>10, <1>13
  <2>1. CASE k \in 1 .. n - 2
    <3>1. k \in 1 .. n - 1 /\ k + 1 \in 1 .. n - 1
      BY <1>10, <2>1
    <3> QED BY <1>10, <1>13, <3>1 DEF StackOK
  <2>2. CASE k = n - 1
    <3>1. k \in 1 .. n - 1 /\ k + 1 = n /\ stack[n] = Top
      BY <1>10, <2>2 DEF Top
    <3>2. Link(stack[k], Top)
      BY <1>10, <3>1 DEF StackOK
    <3>3. Link(stack[k], f)
      BY <1>4, <3>2 DEF Link
    <3> QED BY <1>13, <3>1, <3>3
  <2>3. CASE k = n
    BY <1>9, <1>13, <2>3
  <2> QED BY <1>10, <2>1, <2>2, <2>3
<1>16. stack' # <<>> => stack'[1].entry = problem'.state /\ stack'[1].tasks = problem'.tasks
  <2>1. stack[1].entry = problem.state /\ stack[1].tasks = problem.tasks
    BY <1>1 DEF StackOK
  <2>2. CASE n = 1
    BY <1>1, <1>4, <1>10, <1>13, <2>1, <2>2 DEF Top
  <2>3. CASE n > 1
    BY <1>1, <1>10, <1>13, <2>1, <2>3
  <2> QED BY <1>10, <2>2, <2>3
<1>17. StackOK'
  BY <1>14, <1>15, <1>16 DEF StackOK
<1>18. RetOK'
  BY <1>1 DEF RetOK, None
<1> QED BY <1>13, <1>17, <1>18

-----------------------------------------------------------------------------
(* Every step preserves the invariant                                      *)

\* A call that fails and leaves the memoised plans alone.
LEMMA FailKeeps ==
    ASSUME PlannerInv, stack # <<>>, Return(Fail),
           failCache' \subseteq State \X Seq(Task), successCache' = successCache,
           starved' \in BOOLEAN
    PROVE  PlannerInv'
<1>1. /\ stack' = Below /\ ret' = Fail /\ problem' = problem
      /\ outcome' = outcome /\ result' = result
  BY DEF Return
<1>2. Fail \in Answer /\ Fail.kind # "plan"
  BY DEF Fail, Answer
<1>3. StackOK' /\ RetOK' /\ stack' \in Seq(FrameType)
  BY <1>1, <1>2, ReturnKeeps DEF PlannerInv
<1>4. TypeOK'
  BY <1>1, <1>2, <1>3 DEF PlannerInv, TypeOK, Answer
<1>5. MemoSound'
  BY <1>1 DEF PlannerInv, MemoSound
<1>6. PlanExecutes'
  BY <1>1 DEF PlannerInv, PlanExecutes
<1> QED BY <1>3, <1>4, <1>5, <1>6 DEF PlannerInv

\* MarkFail records the innermost call.
LEMMA MarkFailKeeps ==
    ASSUME PlannerInv, stack # <<>>, MarkFail, starved' \in BOOLEAN PROVE PlannerInv'
<1>1. Top \in FrameType
  BY TopFrame DEF PlannerInv
<1>2. <<Top.entry, Top.tasks>> \in State \X Seq(Task)
  BY <1>1 DEF FrameType
<1>3. failCache' \subseteq State \X Seq(Task)
  BY <1>2 DEF MarkFail, PlannerInv, TypeOK
<1> QED BY <1>3, FailKeeps DEF MarkFail

\* A call that returns a plan for its own tasks, and may memoise it.
LEMMA PlanKeeps ==
    ASSUME PlannerInv, stack # <<>>, NEW p \in Seq(Step), Return(Plan(p)),
           Solves(problem, p, Top.entry, Top.tasks), failCache' = failCache,
           successCache' \subseteq successCache \cup
               {[state |-> Top.entry, tasks |-> Top.tasks, plan |-> p]},
           starved' = starved
    PROVE  PlannerInv'
<1>1. /\ stack' = Below /\ ret' = Plan(p) /\ problem' = problem
      /\ outcome' = outcome /\ result' = result
  BY DEF Return
<1>2. Plan(p) \in Answer /\ Plan(p).plan = p
  BY DEF Plan, Answer
<1>3. StackOK' /\ RetOK' /\ stack' \in Seq(FrameType)
  BY <1>1, <1>2, ReturnKeeps DEF PlannerInv
<1> DEFINE new == [state |-> Top.entry, tasks |-> Top.tasks, plan |-> p]
<1>4. Top \in FrameType
  BY TopFrame DEF PlannerInv
<1>5. new \in [state : State, tasks : Seq(Task), plan : Seq(Step)]
  BY <1>4 DEF FrameType
<1>6. TypeOK'
  <2>1. successCache' \subseteq [state : State, tasks : Seq(Task), plan : Seq(Step)]
    BY <1>5 DEF PlannerInv, TypeOK
  <2> QED BY <1>1, <1>2, <1>3, <2>1 DEF PlannerInv, TypeOK, Answer
<1>7. MemoSound'
  <2> SUFFICES ASSUME NEW e \in successCache' PROVE Solves(problem', e.plan, e.state, e.tasks)
    BY DEF MemoSound
  <2>1. CASE e = new
    BY <1>1, <2>1
  <2>2. CASE e \in successCache
    BY <1>1, <2>2 DEF PlannerInv, MemoSound
  <2> QED BY <2>1, <2>2
<1>8. PlanExecutes'
  BY <1>1 DEF PlannerInv, PlanExecutes
<1> QED BY <1>3, <1>6, <1>7, <1>8 DEF PlannerInv

\* MarkSuccess memoises and returns the plan.
LEMMA MarkSuccessKeeps ==
    ASSUME PlannerInv, stack # <<>>, NEW p \in Seq(Step), MarkSuccess(p),
           Solves(problem, p, Top.entry, Top.tasks), starved' = starved
    PROVE  PlannerInv'
<1>1. Return(Plan(p)) /\ failCache' = failCache
  BY DEF MarkSuccess
<1>2. successCache' \subseteq successCache \cup
          {[state |-> Top.entry, tasks |-> Top.tasks, plan |-> p]}
  BY DEF MarkSuccess
<1> QED BY <1>1, <1>2, PlanKeeps

\* Progress inside the innermost call.
LEMMA SetTopInv ==
    ASSUME PlannerInv, stack # <<>>, NEW f \in FrameType, FrameOK(problem, f),
           f.entry = Top.entry, f.tasks = Top.tasks, SetTop(f),
           ret' = None, UNCHANGED <<problem, caches, outcome, result, starved>>
    PROVE  PlannerInv'
<1>1. ret'.kind # "plan" /\ ret' \in Answer
  BY DEF None, Answer
<1>2. StackOK' /\ RetOK' /\ stack' \in Seq(FrameType)
  BY <1>1, SetTopKeeps DEF PlannerInv
<1>3. TypeOK'
  BY <1>1, <1>2 DEF PlannerInv, TypeOK, Answer, caches
<1>4. MemoSound' /\ PlanExecutes'
  BY DEF PlannerInv, MemoSound, PlanExecutes, caches
<1> QED BY <1>2, <1>3, <1>4 DEF PlannerInv

\* A fast path that has passed the whole task list solves it.
LEMMA WalkedSolves ==
    ASSUME NEW pr, NEW f \in FrameType, FrameOK(pr, f), f.idx > Len(f.tasks)
    PROVE  Solves(pr, f.prefix, f.entry, f.tasks)
<1>1. /\ f.tasks \in Seq(Task) /\ f.idx \in Nat \ {0} /\ f.cur \in State
      /\ f.idx = Len(f.tasks) + 1
  BY DEF FrameType, FrameOK
<1>2. LastGoalMet(f.tasks, f.cur)
  <2> SUFFICES ASSUME f.tasks # <<>>, IsGoal(f.tasks[Len(f.tasks)])
               PROVE  Satisfied(f.tasks[Len(f.tasks)], f.cur)
    BY DEF LastGoalMet
  <2>1. f.idx > 1 /\ f.idx - 1 = Len(f.tasks)
    BY <1>1
  <2> QED BY <2>1 DEF FrameOK
<1> QED BY <1>1, <1>2 DEF Solves, FrameOK

Moved(f, p, c) == [f EXCEPT !.prefix = p, !.cur = c, !.idx = f.idx + 1]

\* The fast path moves a frame past one task, and changes nothing else of it.
LEMMA MovedFrame ==
    ASSUME NEW f \in FrameType, NEW p \in Seq(Step), NEW c \in State,
           NEW g, g = Moved(f, p, c)
    PROVE  /\ g \in FrameType /\ g.entry = f.entry /\ g.tasks = f.tasks
           /\ g.prefix = p /\ g.cur = c /\ g.idx = f.idx + 1 /\ g.mode = f.mode
<1>1. f.idx \in Nat \ {0} /\ f.idx + 1 \in Nat \ {0}
  BY DEF FrameType
<1> QED BY <1>1 DEF FrameType, Moved

LEMMA SkippedFrame ==
    ASSUME NEW f \in FrameType, NEW g, g = [f EXCEPT !.idx = f.idx + 1]
    PROVE  /\ g \in FrameType /\ g.entry = f.entry /\ g.tasks = f.tasks
           /\ g.prefix = f.prefix /\ g.cur = f.cur /\ g.idx = f.idx + 1 /\ g.mode = f.mode
<1>1. f.idx \in Nat \ {0} /\ f.idx + 1 \in Nat \ {0}
  BY DEF FrameType
<1> QED BY <1>1 DEF FrameType

\* Every alternative put in order is an alternative of the frame.
LEMMA OrderInRange ==
    ASSUME NEW k, MethodCount(D, k) \in Nat
    PROVE  /\ Order(k) \in Seq(Nat)
           /\ \A j \in 1 .. Len(Order(k)) : Order(k)[j] \in 1 .. MethodCount(D, k)
<1> DEFINE n == MethodCount(D, k)
           Best == {i \in 1 .. n : /\ scores[k, i] > 0
                                   /\ \A j \in 1 .. n : scores[k, i] >= scores[k, j]
                                   /\ \A j \in 1 .. i - 1 : scores[k, i] > scores[k, j]}
           best == CHOOSE i \in Best : TRUE
<1>1. Order(k) = [i \in 1 .. n |-> IF Best = {} \/ i \notin {1, best} THEN i
                                   ELSE IF i = 1 THEN best ELSE 1]
  BY DEF Order
<1>2. Best # {} => best \in 1 .. n
  OBVIOUS
<1> HIDE DEF best, Best
<1>3. \A i \in 1 .. n : (IF Best = {} \/ i \notin {1, best} THEN i
                         ELSE IF i = 1 THEN best ELSE 1) \in 1 .. n
  BY <1>2
<1>4. Order(k) \in [1 .. n -> 1 .. n]
  BY <1>1, <1>3
<1> QED BY <1>4

\* Every step of the search preserves the invariant.
LEMMA StepKeepsInv == PlannerInv /\ [Next]_vars => PlannerInv'
<1> SUFFICES ASSUME PlannerInv, [Next]_vars PROVE PlannerInv'
  OBVIOUS
<1>0. stack # <<>> => Top \in FrameType /\ FrameOK(problem, Top) /\ problem.dom \in Domain
  BY TopFrame DEF PlannerInv
<1>1. CASE EnterEmpty
  <2>1. stack # <<>> /\ Top.tasks = <<>> /\ Return(Plan(<<>>)) /\ UNCHANGED <<caches, starved>>
    BY <1>1 DEF EnterEmpty, At
  <2>2. Solves(problem, <<>>, Top.entry, Top.tasks)
    BY <1>0, <2>1, ExecEmpty DEF Solves, LastGoalMet, FrameType
  <2>3. <<>> \in Seq(Step)
    OBVIOUS
  <2> QED BY <2>1, <2>2, <2>3, PlanKeeps DEF caches
<1>2. CASE EnterFailed
  <2>1. stack # <<>> /\ Return(Fail) /\ UNCHANGED <<caches, starved>>
    BY <1>2 DEF EnterFailed, At
  <2> QED BY <2>1, FailKeeps DEF caches, PlannerInv, TypeOK
<1>4. CASE Enter
  <2> DEFINE f == [Top EXCEPT !.mode = "walk"]
  <2>1. /\ stack # <<>> /\ SetTop(f) /\ ret' = None
        /\ UNCHANGED <<problem, caches, outcome, result, starved>>
    BY <1>4 DEF Enter, At, caches
  <2>2. f \in FrameType /\ f.entry = Top.entry /\ f.tasks = Top.tasks
    BY <1>0, <2>1 DEF FrameType
  <2>3. f.prefix = Top.prefix /\ f.cur = Top.cur /\ f.idx = Top.idx /\ f.mode = "walk"
    BY <1>0, <2>1 DEF FrameType
  <2>4. FrameOK(problem, f)
    BY <1>0, <2>1, <2>2, <2>3 DEF FrameOK
  <2> HIDE DEF f
  <2> QED BY <2>1, <2>2, <2>4, SetTopInv
<1>5. CASE WalkDone
  <2>1. /\ stack # <<>> /\ Top.idx > Len(Top.tasks) /\ MarkSuccess(Top.prefix)
        /\ starved' = starved
    BY <1>5 DEF WalkDone, At
  <2>2. Solves(problem, Top.prefix, Top.entry, Top.tasks) /\ Top.prefix \in Seq(Step)
    BY <1>0, <2>1, WalkedSolves DEF FrameType
  <2> QED BY <2>1, <2>2, MarkSuccessKeeps
<1>6. CASE WalkHopeless \/ WalkBlocked \/ OutOfFuel \/ Exhausted
  <2>1. stack # <<>> /\ MarkFail /\ (starved' = starved \/ starved' = TRUE)
    BY <1>6 DEF WalkHopeless, WalkBlocked, OutOfFuel, Exhausted, FacingAction,
                Branching, Facing, Walking, At
  <2>2. starved' \in BOOLEAN
    BY <2>1 DEF PlannerInv, TypeOK
  <2> QED BY <2>1, <2>2, MarkFailKeeps
<1>7. CASE WalkGoal
  <2> DEFINE f == [Top EXCEPT !.idx = @ + 1]
  <2>1. /\ stack # <<>> /\ SetTop(f) /\ ret' = None
        /\ UNCHANGED <<problem, caches, outcome, result, starved>>
        /\ Top.mode = "walk" /\ Top.idx <= Len(Top.tasks)
        /\ Satisfied(Top.tasks[Top.idx], Top.cur)
    BY <1>7 DEF WalkGoal, Facing, Walking, At, caches, Head1
  <2>2. /\ f \in FrameType /\ f.entry = Top.entry /\ f.tasks = Top.tasks
        /\ f.prefix = Top.prefix /\ f.cur = Top.cur /\ f.idx = Top.idx + 1
        /\ f.mode = "walk"
    BY <1>0, <2>1, SkippedFrame
  <2>3. Top.idx \in Nat \ {0} /\ Len(Top.tasks) \in Nat
    BY <1>0, <2>1 DEF FrameType
  <2>4. FrameOK(problem, f)
    <3>1. f.idx <= Len(f.tasks) + 1 /\ f.idx - 1 = Top.idx
      BY <2>1, <2>2, <2>3
    <3> QED BY <1>0, <2>1, <2>2, <2>3, <3>1 DEF FrameOK
  <2> HIDE DEF f
  <2> QED BY <2>1, <2>2, <2>4, SetTopInv
<1>8. CASE WalkAction
  <2> DEFINE post == Effect(D, Head1[2], Top.cur)
             step == [call |-> Head1[2], pre |-> Top.cur, post |-> post]
             f == [Top EXCEPT !.prefix = Append(@, step), !.cur = post, !.idx = @ + 1]
  <2>1. /\ stack # <<>> /\ SetTop(f) /\ ret' = None
        /\ UNCHANGED <<problem, caches, outcome, result, starved>>
        /\ Top.mode = "walk" /\ Top.idx <= Len(Top.tasks)
        /\ Head1[1] = "call" /\ IsAction(D, Head1[2]) /\ ~Blocked
    BY <1>8 DEF WalkAction, FacingAction, Facing, Walking, At, caches
  <2>2. /\ Top.idx \in 1 .. Len(Top.tasks) /\ Top.tasks \in Seq(Task)
        /\ Top.cur \in State /\ Top.prefix \in Seq(Step) /\ Top.idx \in Nat
    BY <1>0, <2>1 DEF FrameType
  <2>3. Head1[2] \in Call
    BY <2>1, <2>2 DEF Head1, Task
  <2>4. post \in State /\ Head1[2] \notin problem.blacklist
    BY <1>0, <2>1, <2>2, <2>3, PlannerAssumption DEF Blocked, D
  <2>5. step \in Step /\ step.pre = Top.cur /\ step.post = post /\ step.call = Head1[2]
    BY <2>2, <2>3, <2>4 DEF Step
  <2>6. Executes(problem, Append(Top.prefix, step), Top.entry, post)
    <3>1. Executes(problem, Top.prefix, Top.entry, step.pre)
      BY <1>0, <2>1, <2>5 DEF FrameOK
    <3>2. step.post = Effect(problem.dom, step.call, step.pre)
      BY <2>5 DEF D
    <3>3. IsAction(problem.dom, step.call)
      BY <2>1, <2>5 DEF D
    <3> HIDE DEF step
    <3> QED BY <2>2, <2>4, <2>5, <3>1, <3>2, <3>3, ExecStep
  <2> HIDE DEF step, post
  <2>7. Append(Top.prefix, step) \in Seq(Step)
    BY <2>2, <2>5
  <2> DEFINE q == Append(Top.prefix, step)
  <2>a. f = Moved(Top, q, post)
    BY Zenon DEF Moved
  <2>c. q \in Seq(Step)
    BY <2>7
  <2> HIDE DEF f, q
  <2>b. /\ f \in FrameType /\ f.entry = Top.entry /\ f.tasks = Top.tasks
        /\ f.prefix = q /\ f.cur = post /\ f.idx = Top.idx + 1 /\ f.mode = Top.mode
    <3>1. Top \in FrameType /\ post \in State
      BY <1>0, <2>1, <2>4
    <3> QED BY <2>a, <2>c, <3>1, MovedFrame
  <2>8. /\ f \in FrameType /\ f.entry = Top.entry /\ f.tasks = Top.tasks
        /\ f.prefix = Append(Top.prefix, step) /\ f.cur = post /\ f.idx = Top.idx + 1
        /\ f.mode = Top.mode
    BY <2>b DEF q
  <2>9. f.mode = "walk"
    BY <2>1, <2>8
  <2>10. FrameOK(problem, f)
    <3>1. f.idx <= Len(f.tasks) + 1 /\ f.tasks[f.idx - 1] = Head1
      BY <2>2, <2>8, <2>9 DEF Head1
    <3>2. ~IsGoal(f.tasks[f.idx - 1])
      BY <2>1, <3>1 DEF IsGoal
    <3>3. Executes(problem, f.prefix, f.entry, f.cur)
      BY <2>6, <2>8, <2>9
    <3> QED BY <2>9, <3>1, <3>2, <3>3 DEF FrameOK
  <2> QED BY <2>1, <2>8, <2>10, SetTopInv
<1>9. CASE Branch
  <2> DEFINE f == [Top EXCEPT !.mode = "branch", !.order = Alternatives]
  <2>1. /\ stack # <<>> /\ SetTop(f) /\ ret' = None
        /\ UNCHANGED <<problem, caches, outcome, result, starved>>
        /\ Top.fuel > 0 /\ Top.idx <= Len(Top.tasks)
        /\ IsGoal(Head1) => ~Satisfied(Head1, Top.cur)
    BY <1>9 DEF Branch, Branching, Facing, Walking, At, caches, IsGoal
  <2>2. /\ Top.idx \in 1 .. Len(Top.tasks) /\ Top.tasks \in Seq(Task)
        /\ Top.cur \in State /\ Head1 \in Task
    BY <1>0, <2>1 DEF FrameType, Head1
  <2>3. /\ Alternatives \in Seq(Nat)
        /\ \A j \in 1 .. Len(Alternatives) : Alternatives[j] \in 1 .. Width(problem, Top)
    <3>1. CASE Head1[1] = "multigoal"
      <4>1. Alternatives = [i \in 1 .. Len(Head1[2]) |-> i] /\ Len(Head1[2]) \in Nat
        BY <2>2, <3>1 DEF Alternatives, Task
      <4>2. Width(problem, Top) = Len(Head1[2])
        BY <3>1 DEF Width, Head1
      <4> QED BY <4>1, <4>2
    <3>2. CASE Head1[1] # "multigoal"
      <4>1. BranchKey \in Key
        <5>1. CASE Head1[1] = "call"
          BY <2>2, <5>1 DEF BranchKey, Key, Task
        <5>2. CASE Head1[1] = "goal"
          <6>1. IsGoal(Head1) /\ FirstUnmet(Head1, Top.cur) \in Binding
            BY <2>1, <2>2, <5>2, FirstUnmetBinding DEF IsGoal
          <6> QED BY <5>2, <6>1 DEF BranchKey, Key
        <5> QED BY <2>2, <3>2, <5>1, <5>2 DEF Task
      <4>2. MethodCount(D, BranchKey) \in Nat
        BY <1>0, <2>1, <4>1, PlannerAssumption DEF D
      <4>3. Width(problem, Top) = MethodCount(D, BranchKey)
        BY <3>2 DEF Width, KeyOf, BranchKey, Head1, D
      <4>4. Alternatives = Order(BranchKey)
        BY <3>2 DEF Alternatives
      <4> QED BY <4>2, <4>3, <4>4, OrderInRange
    <3> QED BY <3>1, <3>2
  <2>4. f \in FrameType /\ f.entry = Top.entry /\ f.tasks = Top.tasks
    BY <1>0, <2>1, <2>3 DEF FrameType
  <2>5. /\ f.prefix = Top.prefix /\ f.cur = Top.cur /\ f.idx = Top.idx
        /\ f.order = Alternatives /\ f.fuel = Top.fuel
    BY <1>0, <2>1 DEF FrameType
  <2>6. BranchOK(problem, f)
    <3>1. Width(problem, f) = Width(problem, Top)
      BY <2>4, <2>5 DEF Width, KeyOf
    <3> QED BY <2>1, <2>3, <2>4, <2>5, <3>1 DEF BranchOK, Head1
  <2>7. FrameOK(problem, f)
    BY <1>0, <2>1, <2>4, <2>5, <2>6 DEF FrameOK
  <2> HIDE DEF f
  <2> QED BY <2>1, <2>4, <2>7, SetTopInv
<1>10. CASE Pass
  <2> DEFINE f == [Top EXCEPT !.at = @ + 1, !.seen = @ \cup ({NextTasks} \ {Nil})]
  <2>1. /\ stack # <<>> /\ SetTop(f) /\ ret' = None
        /\ UNCHANGED <<problem, caches, outcome, result, starved>>
        /\ Top.mode = "branch" /\ Top.at < Len(Top.order)
    BY <1>10 DEF Pass, Choosing, At, caches
  <2>2. NextTasks # Nil => NextTasks \in Seq(Task)
    BY <2>1, DecompositionSound DEF PlannerInv
  <2>3. f \in FrameType /\ f.entry = Top.entry /\ f.tasks = Top.tasks
    <3>1. {NextTasks} \ {Nil} \subseteq Seq(Task)
      BY <2>2
    <3>2. Top.at + 1 \in Nat /\ Top.seen \cup ({NextTasks} \ {Nil}) \in SUBSET Seq(Task)
      BY <1>0, <2>1, <3>1 DEF FrameType
    <3> QED BY <1>0, <2>1, <3>2 DEF FrameType
  <2>4. /\ f.prefix = Top.prefix /\ f.cur = Top.cur /\ f.idx = Top.idx /\ f.mode = "branch"
        /\ f.order = Top.order /\ f.fuel = Top.fuel
    BY <1>0, <2>1 DEF FrameType
  <2> HIDE DEF f
  <2>5. Width(problem, f) = Width(problem, Top)
    BY <2>3, <2>4 DEF Width, KeyOf
  <2>6. BranchOK(problem, f)
    BY <1>0, <2>1, <2>3, <2>4, <2>5 DEF FrameOK, BranchOK
  <2>7. FrameOK(problem, f)
    BY <1>0, <2>1, <2>3, <2>4, <2>6 DEF FrameOK
  <2> QED BY <2>1, <2>3, <2>7, SetTopInv
<1>11. CASE Descend
  <2>1. ret = None /\ UNCHANGED <<problem, ret, caches, outcome, result, starved>>
    BY <1>11 DEF Descend, Choosing, At, caches
  <2>2. StackOK' /\ RetOK' /\ stack' \in Seq(FrameType)
    BY <1>11, <2>1, DescendKeeps DEF PlannerInv
  <2> QED BY <2>1, <2>2 DEF PlannerInv, TypeOK, MemoSound, PlanExecutes, caches
<1>12. CASE TryNext
  <2> DEFINE f == [Top EXCEPT !.mode = "branch"]
  <2>1. /\ stack # <<>> /\ SetTop(f) /\ ret' = None
        /\ UNCHANGED <<problem, caches, outcome, result, starved>>
        /\ Top.mode = "wait"
    BY <1>12 DEF TryNext, Resumed, caches
  <2>2. f \in FrameType /\ f.entry = Top.entry /\ f.tasks = Top.tasks
    BY <1>0, <2>1 DEF FrameType
  <2>3. /\ f.prefix = Top.prefix /\ f.cur = Top.cur /\ f.idx = Top.idx /\ f.mode = "branch"
        /\ f.order = Top.order /\ f.fuel = Top.fuel
    BY <1>0, <2>1 DEF FrameType
  <2> HIDE DEF f
  <2>4. Width(problem, f) = Width(problem, Top)
    BY <2>2, <2>3 DEF Width, KeyOf
  <2>5. BranchOK(problem, f)
    BY <1>0, <2>1, <2>2, <2>3, <2>4 DEF FrameOK, BranchOK
  <2>6. FrameOK(problem, f)
    BY <1>0, <2>1, <2>2, <2>3, <2>5 DEF FrameOK
  <2> QED BY <2>1, <2>2, <2>6, SetTopInv
<1>13. CASE Finish
  <2>1. /\ stack # <<>> /\ ret.kind = "plan" /\ MarkSuccess(Joined) /\ starved' = starved
    BY <1>13 DEF Finish, Resumed
  <2>2. PICK t \in State : Executes(problem, ret.plan, Top.cur, t) /\ LastGoalMet(Top.tasks, t)
    BY <2>1 DEF PlannerInv, RetOK, Solves
  <2>3. ret.plan \in Seq(Step) /\ Top.prefix \in Seq(Step)
    BY <1>0, <2>1 DEF PlannerInv, TypeOK, FrameType
  <2>4. Executes(problem, Joined, Top.entry, t)
    BY <1>0, <2>1, <2>2, <2>3, ExecJoin DEF FrameOK, Joined
  <2>5. Joined \in Seq(Step) /\ Solves(problem, Joined, Top.entry, Top.tasks)
    BY <2>2, <2>3, <2>4, SMTT(30) DEF Solves, Joined
  <2> QED BY <2>1, <2>5, MarkSuccessKeeps
<1>14. CASE Deliver
  <2>1. /\ stack = <<>> /\ outcome' = (IF ret.kind = "plan" THEN "plan" ELSE "no_plan")
        /\ result' = ret.plan
        /\ UNCHANGED <<problem, stack, ret, failCache, successCache, starved>>
    BY <1>14 DEF Deliver, caches
  <2>2. TypeOK' /\ StackOK' /\ RetOK' /\ MemoSound'
    BY <2>1 DEF PlannerInv, TypeOK, StackOK, RetOK, MemoSound, Top
  <2>3. PlanExecutes'
    BY <2>1 DEF PlannerInv, RetOK, PlanExecutes
  <2> QED BY <2>2, <2>3 DEF PlannerInv
<1>15. CASE Timeout
  <2>1. /\ outcome' = "budget"
        /\ UNCHANGED <<problem, stack, ret, failCache, successCache, result, starved>>
    BY <1>15 DEF Timeout, caches
  <2> QED BY <2>1 DEF PlannerInv, TypeOK, StackOK, RetOK, MemoSound, PlanExecutes, Top
<1>16. CASE UNCHANGED vars
  BY <1>16 DEF vars, PlannerInv, TypeOK, StackOK, RetOK, MemoSound, PlanExecutes, Top
<1> QED
  BY <1>1, <1>2, <1>4, <1>5, <1>6, <1>7, <1>8, <1>9, <1>10, <1>11, <1>12, <1>13,
     <1>14, <1>15, <1>16 DEF Next, Search

LEMMA InitInv == Init => PlannerInv
<1> SUFFICES ASSUME Init PROVE PlannerInv
  OBVIOUS
<1> DEFINE f == Frame(problem.state, problem.tasks, MaxDepth)
<1>1. /\ problem \in Problem /\ stack = <<f>> /\ ret = None /\ failCache = {}
      /\ successCache = {} /\ outcome = "running" /\ result = <<>> /\ starved = FALSE
  BY DEF Init
<1>2. problem.state \in State /\ problem.tasks \in Seq(Task) /\ MaxDepth \in Nat
  BY <1>1, PlannerAssumption
<1>3. f \in FrameType
  BY <1>2, FrameTyped
<1>4. /\ f.entry = problem.state /\ f.tasks = problem.tasks /\ f.cur = problem.state
      /\ f.idx = 1 /\ f.prefix = <<>> /\ f.mode = "enter"
  BY DEF Frame
<1> HIDE DEF f
<1>5. FrameOK(problem, f)
  <2>1. Executes(problem, f.prefix, f.entry, f.cur)
    BY <1>4, ExecEmpty
  <2>2. f.idx <= Len(f.tasks) + 1
    BY <1>2, <1>4
  <2>3. ~(f.idx > 1) /\ f.mode \notin {"branch", "wait"}
    BY <1>4
  <2> QED BY <2>1, <2>2, <2>3 DEF FrameOK
<1>6. TypeOK
  <2>1. <<f>> \in Seq(FrameType) /\ <<>> \in Seq(Step)
    BY <1>3
  <2>2. ret \in [kind : {"none", "fail", "plan"}, plan : Seq(Step)]
    BY <1>1, <2>1 DEF None
  <2> QED BY <1>1, <2>1, <2>2 DEF TypeOK
<1>7. StackOK
  BY <1>1, <1>4, <1>5 DEF StackOK
<1> QED BY <1>1, <1>6, <1>7 DEF PlannerInv, RetOK, None, MemoSound, PlanExecutes

\* Whatever the domain, the problem and the bounds: every plan tw_plan returns
\* executes from the initial state and meets the final goal, and every plan in
\* success_cache solves the subproblem it is stored under.
THEOREM PlansExecute == Spec => [](TypeOK /\ PlanExecutes /\ MemoSound)
<1>1. PlannerInv => TypeOK /\ PlanExecutes /\ MemoSound
  BY DEF PlannerInv
<1> QED BY <1>1, InitInv, StepKeepsInv, PTL DEF Spec

-----------------------------------------------------------------------------
\* A plan is memoised on the way up only: what the innermost call returned is
\* still on its way to the top whenever success_cache has an entry.
OnTheWayUp == successCache # {} => ret.kind = "plan"

\* For every domain, problem and bound: a subproblem is only ever looked up in
\* an empty success_cache, so the lookup of tw_seek_plan never hits.
THEOREM SuccessesNeverRead == Spec => []SuccessesUnused
<1>1. Init => OnTheWayUp
  BY DEF Init, OnTheWayUp
<1>2. ASSUME OnTheWayUp, [Next]_vars PROVE OnTheWayUp'
  <2>0. None.kind = "none" /\ Fail.kind = "fail" /\ \A p : Plan(p).kind = "plan"
    BY DEF None, Fail, Plan
  <2>1. ASSUME NEW mode, At(mode) PROVE successCache = {}
    BY <1>2, <2>0, <2>1 DEF At, OnTheWayUp
  <2>2. CASE EnterEmpty \/ WalkDone \/ Finish
    BY <2>0, <2>2 DEF EnterEmpty, WalkDone, Finish, MarkSuccess, Return, OnTheWayUp
  <2>3. CASE EnterFailed \/ Enter \/ WalkHopeless \/ WalkGoal \/ WalkBlocked \/ WalkAction
    <3>1. successCache = {}
      BY <2>1, <2>3 DEF EnterFailed, Enter, WalkHopeless, WalkGoal, WalkBlocked, WalkAction,
                        Facing, FacingAction, Walking
    <3>2. UNCHANGED successCache
      BY <2>3 DEF EnterFailed, Enter, WalkHopeless, WalkGoal, WalkBlocked, WalkAction,
                  MarkFail, caches
    <3> QED BY <3>1, <3>2 DEF OnTheWayUp
  <2>4. CASE OutOfFuel \/ Branch \/ Pass \/ Descend \/ Exhausted \/ TryNext
    <3>1. CASE TryNext
      BY <1>2, <3>1 DEF TryNext, Resumed, OnTheWayUp, caches
    <3>2. CASE OutOfFuel \/ Branch \/ Pass \/ Descend \/ Exhausted
      <4>1. successCache = {}
        BY <2>1, <3>2 DEF OutOfFuel, Branch, Pass, Descend, Exhausted, Branching, Facing,
                          Walking, Choosing
      <4>2. UNCHANGED successCache
        BY <3>2 DEF OutOfFuel, Branch, Pass, Descend, Exhausted, MarkFail, caches
      <4> QED BY <4>1, <4>2 DEF OnTheWayUp
    <3> QED BY <2>4, <3>1, <3>2
  <2>5. CASE Deliver \/ Timeout \/ UNCHANGED vars
    BY <1>2, <2>5 DEF Deliver, Timeout, vars, caches, OnTheWayUp
  <2> QED BY <1>2, <2>2, <2>3, <2>4, <2>5 DEF Next, Search
<1>3. OnTheWayUp => SuccessesUnused
  BY DEF OnTheWayUp, SuccessesUnused, At, None
<1> QED BY <1>1, <1>2, <1>3, PTL DEF Spec
=============================================================================
