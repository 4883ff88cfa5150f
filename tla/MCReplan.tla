------------------------------ MODULE MCReplan ------------------------------
(***************************************************************************)
(* Replan requests for TLC, over the states and actions of MCPlanner.  The *)
(* domains offer second choices below and beside the first ones; the given *)
(* plans hold an unknown action, one that does not apply, and neither.     *)
(***************************************************************************)
EXTENDS Replan, MCPlanner

RPDomain ==
    [t : {<<Alt(2, <<"u">>), Alt(2, <<"setx", "sety">>)>>,
          <<Alt(0, <<"setx", "flip">>), Alt(2, <<"setx", "sety">>)>>,
          <<Alt(2, <<"setx", "u">>), Alt(1, <<"t">>), Alt(2, <<>>)>>},
     u : {<<Alt(1, <<"flip">>)>>, <<Alt(2, <<"setx", "sety">>), Alt(2, <<"flip">>)>>},
     x : {<<>>, <<Alt(2, <<"setx">>)>>, <<Alt(2, <<"t">>), Alt(2, <<"setx">>)>>},
     y : {<<Alt(1, <<"sety">>), Alt(2, <<"flip">>)>>,
          <<Alt(2, <<"u">>), Alt(2, <<"setx", "sety">>)>>}]

RPTasks ==
    {<<<<"call", "t">>>>, <<<<"call", "t">>, <<"call", "u">>>>, <<<<"call", "setx">>, <<"call", "t">>>>,
     <<<<"goal", <<"y", "x">>>>>>, <<<<"multigoal", <<"x", "y">>>>>>,
     <<<<"call", "u">>, <<"goal", <<"x">>>>>>}

RPProblem ==
    [dom : RPDomain, state : MCState, tasks : RPTasks, blacklist : {{}} \union {{c} : c \in MCCall}]

AllDomain == MCDomain \union RPDomain

\* tw_plan alone gets the problems of MCPlanner.
AllProblem == MCProblem \union RPProblem

MCReplanInit ==
    /\ ReplanInit
    /\ IF phase = "searching" THEN problem \in MCProblem
       ELSE problem \in RPProblem /\ problem.state = [x |-> 0, y |-> 0]
    /\ problem.blacklist = {}

MCReplanSpec == MCReplanInit /\ [][ReplanNext]_allVars /\ WF_allVars(Searching)

RPGivenPlans == {<<"sety", "setx">>, <<"setx", "t", "sety">>, <<"flip", "setx">>}

-----------------------------------------------------------------------------
(* Reference: what the methods derive, less the skipped choices            *)

\* Decompositions without the choices in skip.
ChoicesBut(t, s, skip) ==
    LET keys == CASE t[1] = "call" -> {t[2]}
                  [] t[1] = "goal" -> {FirstUnmet(t, s)}
                  [] OTHER -> {t[2][i] : i \in Unmet(t, s)}
        subs == {Method(D, c[1], c[2], s) :
                    c \in {d \in (keys \X (1 .. MaxMethods)) \ skip : d[2] <= MethodCount(D, d[1])}}
    IN  {Calls(l) \o (IF t[1] = "call" THEN <<>> ELSE <<t>>) : l \in subs \ {Nil}}

RECURSIVE PlansBut(_, _, _, _)
PlansBut(tasks, s, depth, skip) ==
    IF tasks = <<>> THEN {<<>>}
    ELSE LET t == Head(tasks)
         IN  CASE IsGoal(t) /\ Satisfied(t, s) -> PlansBut(Tail(tasks), s, depth, skip)
               [] t[1] = "call" /\ IsAction(D, t[2]) ->
                     IF t[2] \in problem.blacklist \/ Effect(D, t[2], s) = Nil THEN {}
                     ELSE {<<t[2]>> \o p :
                              p \in PlansBut(Tail(tasks), Effect(D, t[2], s), depth, skip)}
               [] OTHER ->
                     IF depth = 0 THEN {}
                     ELSE UNION {PlansBut(c \o Tail(tasks), s, depth - 1, skip) :
                                    c \in ChoicesBut(t, s, skip)}

\* The plans for the problem as it is now.
Derivable == PlansBut(problem.tasks, problem.state, MaxDepth, skipped)

-----------------------------------------------------------------------------
\* What tw_plan_with_tree plans, the domain's methods derive; and it finds no
\* plan only when there is none, or fuel ran out: rolling back a failed branch
\* and remembering it lose nothing.
TreePlanExact ==
    /\ phase = "planned" => plan \in Derivable
    /\ phase = "done" /\ outcome = "idle" /\ plan = Nil => memory.starved \/ Derivable = {}

\* The part of a recovered plan after the prefix that was kept.
Recovered == SubSeq(newPlan, Len(kept) + 1, Len(newPlan))

\* A recovery is a plan for the original tasks from the state it starts in,
\* without the failed command and the choice that led to it, and the prefix that
\* is kept leads there from the original state.  A replan gives up only when
\* there is no such plan, or fuel ran out, or (in tw_plan) the witness oracle met
\* a goal without methods.
RecoveryExact ==
    /\ phase = "done" /\ newPlan # Nil =>
          LET before == Simulate(kept, asked.state)
          IN  /\ before.failed = 0 /\ (kept # <<>> => before.state = problem.state)
              /\ simulated.failed # 0 =>
                    /\ Recovered \in Derivable
                    /\ \A i \in DOMAIN Recovered : Recovered[i] # plan[simulated.failed]
    /\ phase = "done" /\ plan # Nil /\ newPlan = Nil =>
          \/ Derivable = {} \/ starved \/ memory.starved
          \/ outcome = "no_plan" /\ ~GoalsHaveMethods
=============================================================================
