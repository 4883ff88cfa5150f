------------------------------ MODULE SolTree ------------------------------
(***************************************************************************)
(* The solution tree (taskweft_nif/standalone/tw_soltree.hpp) and the      *)
(* search that builds it, tw_plan_with_tree and tw_seek_plan_tree          *)
(* (tw_planner.hpp).  The search is one recursive function: its memory,    *)
(* the tree and the fail cache, is passed through the calls and rolled     *)
(* back where the code restores a checkpoint.  Node ids and method indices *)
(* start at 1 here, and 0 stands for the code's -1.                        *)
(*                                                                         *)
(* The time budget is left out: an exceeded one throws the search away.    *)
(***************************************************************************)
EXTENDS Planner

TreeNode(kind, parent, key, method, step, first) ==
    [kind |-> kind, parent |-> parent, key |-> key, method |-> method,
     step |-> step, first |-> first, children |-> <<>>]

\* nodes, action_nodes and the fail cache; whether fuel ran out somewhere.
NewMemory ==
    [nodes |-> <<TreeNode("root", 0, Nil, 0, 0, 0)>>, actions |-> <<>>,
     fails |-> {}, starved |-> FALSE]

\* TwSolTree::add_node
AddNode(m, n) ==
    LET id == Len(m.nodes) + 1
    IN  [m EXCEPT !.nodes = Append([@ EXCEPT ![n.parent].children = Append(@, id)], n)]

\* The node of an action is noted in plan order, too.
AddAction(m, parent, call) ==
    LET step == Len(m.actions) + 1
    IN  [AddNode(m, TreeNode("action", parent, call, 0, step, 0)) EXCEPT
             !.actions = Append(@, Len(m.nodes) + 1)]

AddChoice(m, kind, parent, key, i) ==
    AddNode(m, TreeNode(kind, parent, key, i, 0, Len(m.actions) + 1))

\* Faulty rollback: the nodes go, their places in the plan order stay.
RestoreNodes(m, cp) ==
    [m EXCEPT !.nodes = [i \in 1 .. cp |->
        [m.nodes[i] EXCEPT !.children = SelectSeq(@, LAMBDA c : c <= cp)]]]

\* TwSolTree::restore: nodes, children, and the end of action_nodes.
Restore(m, cp) ==
    LET keep == {k \in 0 .. Len(m.actions) : \A i \in k + 1 .. Len(m.actions) : m.actions[i] > cp}
    IN  [m EXCEPT
            !.nodes = [i \in 1 .. cp |->
                [m.nodes[i] EXCEPT !.children = SelectSeq(@, LAMBDA c : c <= cp)]],
            !.actions = SubSeq(@, 1, CHOOSE k \in keep : \A j \in keep : k <= j)]

-----------------------------------------------------------------------------
(* tw_seek_plan_tree                                                       *)

Found(plan, m) == [plan |-> plan, memory |-> m]
Failed(m) == [plan |-> Nil, memory |-> m]

\* mark_fail
MarkedFail(s, tasks, m) == Failed([m EXCEPT !.fails = @ \cup {<<s, tasks>>}])

\* Faulty decomposition: the goal is not queued again behind the subtasks.
TreeDecompositionDropsGoal(s, tasks, key, i, skip) ==
    LET subs == Method(D, key, i, s)
    IN  IF <<key, i>> \in skip \/ subs = Nil THEN Nil ELSE Calls(subs) \o Tail(tasks)

\* Alternative i of the first task, or Nil when its method is skipped or does
\* not apply.  skip is the set of <<key, method>> pairs of TwMethodSkip.
TreeDecomposition(s, tasks, key, i, skip) ==
    LET subs == Method(D, key, i, s)
    IN  IF <<key, i>> \in skip \/ subs = Nil THEN Nil
        ELSE Calls(subs) \o (IF IsGoal(Head(tasks)) THEN <<Head(tasks)>> ELSE <<>>) \o Tail(tasks)

\* A multigoal is tried one unmet binding at a time, and leaves no node.
BindingTasks(tasks, i) == <<<<"goal", <<Head(tasks)[2][i]>>>>>> \o tasks

RECURSIVE Seek(_, _, _, _, _, _), TryMethods(_, _, _, _, _, _, _, _, _), TryBindings(_, _, _, _, _, _, _)

\* The search for tasks in state s below node parent, with memory m.
Seek(s, tasks, parent, fuel, skip, m) ==
    IF fuel <= 0 THEN Failed([m EXCEPT !.starved = TRUE])
    ELSE IF tasks = <<>> THEN Found(<<>>, m)
    ELSE IF <<s, tasks>> \in m.fails THEN Failed(m)
    ELSE LET t == Head(tasks)
         IN  CASE IsGoal(t) /\ Satisfied(t, s) -> Seek(s, Tail(tasks), parent, fuel - 1, skip, m)
               [] t[1] = "goal" /\ ~Satisfied(t, s) ->
                     TryMethods(s, tasks, "goal", FirstUnmet(t, s), 1, {}, <<parent, fuel>>, skip, m)
               [] t[1] = "multigoal" /\ ~Satisfied(t, s) ->
                     TryBindings(s, tasks, 1, parent, fuel, skip, m)
               [] t[1] = "call" /\ IsAction(D, t[2]) ->
                     LET post == Effect(D, t[2], s)
                         r == Seek(post, Tail(tasks), parent, fuel - 1, skip, AddAction(m, parent, t[2]))
                     IN  IF t[2] \in problem.blacklist \/ post = Nil THEN MarkedFail(s, tasks, m)
                         ELSE IF r.plan = Nil THEN MarkedFail(s, tasks, Restore(r.memory, Len(m.nodes)))
                         ELSE [r EXCEPT !.plan = <<t[2]>> \o @]
               [] OTHER ->
                     TryMethods(s, tasks, "task", t[2], 1, {}, <<parent, fuel>>, skip, m)

\* The methods from the i-th on; at is the node above and the fuel.
TryMethods(s, tasks, kind, key, i, seen, at, skip, m) ==
    IF i > MethodCount(D, key) THEN MarkedFail(s, tasks, m)
    ELSE LET new == TreeDecomposition(s, tasks, key, i, skip)
             grown == AddChoice(m, kind, at[1], key, i)
             r == Seek(s, new, Len(grown.nodes), at[2] - 1, skip, grown)
         IN  IF new = Nil THEN TryMethods(s, tasks, kind, key, i + 1, seen, at, skip, m)
             ELSE IF new \in seen \/ ~PrefixPlausible(new, s)
             THEN TryMethods(s, tasks, kind, key, i + 1, seen \cup {new}, at, skip,
                             Restore(grown, Len(m.nodes)))
             ELSE IF r.plan # Nil THEN r
             ELSE TryMethods(s, tasks, kind, key, i + 1, seen \cup {new}, at, skip,
                             Restore(r.memory, Len(m.nodes)))

TryBindings(s, tasks, i, parent, fuel, skip, m) ==
    IF i > Len(Head(tasks)[2]) THEN MarkedFail(s, tasks, m)
    ELSE LET r == Seek(s, BindingTasks(tasks, i), parent, fuel - 1, skip, m)
         IN  IF i \notin Unmet(Head(tasks), s)
             THEN TryBindings(s, tasks, i + 1, parent, fuel, skip, m)
             ELSE IF r.plan # Nil THEN r
             ELSE TryBindings(s, tasks, i + 1, parent, fuel, skip, r.memory)

\* tw_plan_with_tree on the current problem.
PlanWithTree(skip) == Seek(problem.state, problem.tasks, 1, MaxDepth, skip, NewMemory)

-----------------------------------------------------------------------------
(* Queries                                                                 *)

\* n is a choice with an untried alternative.
Retryable(n) == n.kind \in {"task", "goal"} /\ n.method < MethodCount(D, n.key)

\* nearest_retryable_ancestor, from node cur upwards; 0 if there is none.
RECURSIVE RetryableFrom(_, _)
RetryableFrom(nodes, cur) ==
    IF cur <= 1 THEN 0
    ELSE IF Retryable(nodes[cur]) THEN cur
    ELSE RetryableFrom(nodes, nodes[cur].parent)

NearestRetryableAncestor(nodes, id) == RetryableFrom(nodes, nodes[id].parent)

\* prefix_length: the actions planned before the choice was made.
PrefixLength(n) == n.first - 1
=============================================================================
