----------------------------- MODULE MCPlanner -----------------------------
(***************************************************************************)
(* Planner problems for TLC.  States hold two variables; the actions set   *)
(* one, need the other, or clobber it; a domain assigns alternatives to    *)
(* the compound tasks t and u and to the goal bindings x and y (x = 1,     *)
(* y = 1).  The reference search below has no caches, scores, oracle,      *)
(* plausibility probe or duplicate test.                                   *)
(***************************************************************************)
EXTENDS Planner, FiniteSets

MCState == [x : 0 .. 1, y : 0 .. 1]
MCCall == {"setx", "sety", "flip", "t", "u"}
MCBinding == {"x", "y"}

MCIsAction(d, c) == c \in {"setx", "sety", "flip"}

\* setx always applies, sety needs x, flip sets y and clears x.
MCEffect(d, c, s) ==
    CASE c = "setx" -> [s EXCEPT !.x = 1]
      [] c = "sety" -> IF s.x = 1 THEN [s EXCEPT !.y = 1] ELSE Nil
      [] c = "flip" -> [x |-> 0, y |-> 1]
      [] OTHER      -> Nil

\* An alternative is a guard on x (2: none) and a list of subtasks.
Alt(guard, subs) == [guard |-> guard, subs |-> subs]

MCDomain ==
    [t : {<<a, b>> : a \in {Alt(0, <<"sety">>), Alt(2, <<"u">>)},
                     b \in {Alt(2, <<"setx", "sety">>), Alt(2, <<"t">>), Alt(2, <<>>)}},
     u : {<<>>, <<Alt(1, <<"flip">>)>>, <<Alt(2, <<"setx", "t">>)>>},
     x : {<<>>, <<Alt(2, <<"setx">>)>>, <<Alt(2, <<"t">>)>>},
     y : {<<>>, <<Alt(2, <<"sety">>)>>, <<Alt(1, <<"sety">>), Alt(2, <<"flip">>)>>,
          <<Alt(2, <<"u">>), Alt(2, <<"setx", "sety">>)>>}]

Goals(kind) == {<<kind, <<"x">>>>, <<kind, <<"x", "y">>>>, <<kind, <<"y", "x">>>>}

MCTasks ==
    {<<<<"call", "t">>>>, <<<<"call", "t">>, <<"call", "u">>>>,
     <<<<"call", "t">>, <<"call", "flip">>>>}
    \cup {<<g>> : g \in Goals("goal") \cup Goals("multigoal")}
    \cup {<<<<"call", c>>, g>> : c \in {"setx", "t"}, g \in Goals("goal")}

MCProblem ==
    [dom : MCDomain, state : {[x |-> 0, y |-> 0], [x |-> 1, y |-> 0]},
     tasks : MCTasks, blacklist : {{}, {"flip"}}]

MCMethodCount(d, k) == IF k \in DOMAIN d THEN Len(d[k]) ELSE 0

\* Guard 2 always holds.
MCMethod(d, k, i, s) ==
    IF d[k][i].guard \in {2, s.x} THEN d[k][i].subs ELSE Nil

MCHolds(b, s) == s[b] = 1

-----------------------------------------------------------------------------
(* Reference search                                                        *)

\* The decompositions of an unmet goal or a compound task in state s.
Choices(t, s) ==
    LET keys == CASE t[1] = "call" -> {t[2]}
                  [] t[1] = "goal" -> {FirstUnmet(t, s)}
                  [] OTHER -> {t[2][i] : i \in Unmet(t, s)}
        subs == UNION {{Method(D, k, i, s) : i \in 1 .. MethodCount(D, k)} : k \in keys}
    IN  {Calls(l) \o (IF t[1] = "call" THEN <<>> ELSE <<t>>) : l \in subs \ {Nil}}

\* The plans, cut off after `depth' decompositions, as sequences of calls.
RECURSIVE Plans(_, _, _)
Plans(tasks, s, depth) ==
    IF tasks = <<>> THEN {<<>>}
    ELSE LET t == Head(tasks)
         IN  CASE IsGoal(t) /\ Satisfied(t, s) -> Plans(Tail(tasks), s, depth)
               [] t[1] = "call" /\ IsAction(D, t[2]) ->
                     IF t[2] \in problem.blacklist \/ Effect(D, t[2], s) = Nil THEN {}
                     ELSE {<<t[2]>> \o p :
                              p \in Plans(Tail(tasks), Effect(D, t[2], s), depth)}
               [] OTHER ->
                     IF depth = 0 THEN {}
                     ELSE UNION {Plans(c \o Tail(tasks), s, depth - 1) :
                                    c \in Choices(t, s)}

AllPlans == Plans(problem.tasks, problem.state, MaxDepth)

GoalsHaveMethods == \A b \in Binding : HasMethods(b)

-----------------------------------------------------------------------------
\* A plan that tw_plan returns is one of the plans the domain's methods derive
\* for the task list: caching, reordering and pruning never mix up the commands
\* of different decompositions.  And when every goal variable has methods,
\* no_plan means that no plan exists, unless the search ran out of fuel: what
\* the fail cache, the plausibility probe and the witness oracle cut off held
\* no plan.
PlanExact ==
    /\ outcome = "plan" => [i \in 1 .. Len(result) |-> result[i].call] \in AllPlans
    /\ outcome = "no_plan" /\ ~starved /\ GoalsHaveMethods => AllPlans = {}

\* The witness oracle cuts a branch off only when it is impossible, as the
\* comment above tw_witness_oracle_goal_reach says, whatever the domain.
OracleSound ==
    Walking /\ ~Witness(Top.tasks, Top.idx, Top.cur) =>
        Plans(SubSeq(Top.tasks, Top.idx, Len(Top.tasks)), Top.cur, Top.fuel) = {}
=============================================================================
