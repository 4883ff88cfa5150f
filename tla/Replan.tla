------------------------------- MODULE Replan -------------------------------
(***************************************************************************)
(* Executing and recovering a plan (taskweft_nif/standalone/tw_replan.hpp, *)
(* tw_mc_executor.hpp).  A plan comes from tw_plan_with_tree, with its     *)
(* tree, or from the caller of the NIF.  tw_replan simulates it up to the  *)
(* failed step and searches again with tw_plan, which is the Planner       *)
(* module step by step; tw_replan_incremental searches with the tree       *)
(* search from an earlier choice.  Steps count from 1; a failed step that  *)
(* is not in the plan means that the simulation finds it.                  *)
(***************************************************************************)
EXTENDS SolTree

CONSTANT GivenPlans    \* the plans a caller may pass, sequences of calls

VARIABLES
    phase,        \* fresh, planned, searching, retrying, done
    asked,        \* the state and tasks of the request
    plan,         \* original_plan
    memory,       \* the tree of the plan; in the end the one of the new plan
    simulated,    \* TwSimulateResult: completed, failed, state
    kept,         \* the prefix of the plan that the new one begins with
    skipped,      \* TwMethodSkip
    newPlan,      \* the recovered plan, or Nil
    drawn         \* mc_execute: its result

replanVars == <<phase, asked, plan, memory, simulated, kept, skipped, newPlan, drawn>>
allVars == <<vars, replanVars>>

searchVars == <<stack, ret, failCache, successCache, scores, outcome, result, starved>>

-----------------------------------------------------------------------------
\* tw_simulate from step i on: an action that is unknown or does not apply
\* ends it.
RECURSIVE SimulateFrom(_, _, _)
SimulateFrom(p, i, s) ==
    IF i > Len(p) THEN [completed |-> i - 1, failed |-> 0, state |-> s]
    ELSE IF ~IsAction(D, p[i]) \/ Effect(D, p[i], s) = Nil
    THEN [completed |-> i - 1, failed |-> i, state |-> s]
    ELSE SimulateFrom(p, i + 1, Effect(D, p[i], s))

Simulate(p, s) == SimulateFrom(p, 1, s)

\* Faulty simulation: the failed step is applied, too.
SimulatePast(p, s, failStep) ==
    IF failStep \notin 1 .. Len(p) THEN Simulate(p, s)
    ELSE [completed |-> failStep - 1, failed |-> failStep,
          state |-> Simulate(SubSeq(p, 1, failStep), s).state]

\* The simulation a replan begins with.  When the caller names the failed step,
\* the steps before it are applied, and their own failure is not looked at.
SimulateTo(p, s, failStep) ==
    IF failStep \notin 1 .. Len(p) THEN Simulate(p, s)
    ELSE [completed |-> failStep - 1, failed |-> failStep,
          state |-> Simulate(SubSeq(p, 1, failStep - 1), s).state]

\* mc_execute from step i on: the steps of fails are drawn as failures.  A step
\* whose action is unknown counts as a success.
RECURSIVE McFrom(_, _, _, _)
McFrom(p, i, s, fails) ==
    IF i > Len(p) THEN [completed |-> i - 1, failed |-> 0, state |-> s]
    ELSE IF i \in fails \/ (IsAction(D, p[i]) /\ Effect(D, p[i], s) = Nil)
    THEN [completed |-> i - 1, failed |-> i, state |-> s]
    ELSE McFrom(p, i + 1, IF IsAction(D, p[i]) THEN Effect(D, p[i], s) ELSE s, fails)

NoResult == [completed |-> 0, failed |-> 0, state |-> Nil]

-----------------------------------------------------------------------------
\* The NIF calls tw_plan at once, or tw_plan_with_tree, or is given a plan.
ReplanInit ==
    /\ \/ Init /\ phase = "searching"
       \/ /\ problem \in Problem
          /\ stack = <<>> /\ ret = None /\ failCache = {} /\ successCache = {}
          /\ scores = [k \in Key \X (1 .. MaxMethods) |-> 0]
          /\ outcome = "idle" /\ result = <<>> /\ starved = FALSE
          /\ phase = "fresh"
    /\ asked = problem /\ plan = Nil /\ memory = NewMemory
    /\ simulated = NoResult /\ kept = <<>> /\ skipped = {} /\ newPlan = Nil /\ drawn = NoResult

\* tw_plan_with_tree
PlanFirst ==
    /\ phase = "fresh"
    /\ LET r == PlanWithTree({})
       IN  /\ plan' = r.plan /\ memory' = r.memory
           /\ phase' = IF r.plan = Nil THEN "done" ELSE "planned"
    /\ UNCHANGED <<problem, searchVars, asked, simulated, kept, skipped, newPlan, drawn>>

GivePlan ==
    /\ phase = "fresh"
    /\ \E p \in GivenPlans : plan' = p
    /\ phase' = "given"
    /\ UNCHANGED <<problem, searchVars, asked, memory, simulated, kept, skipped, newPlan, drawn>>

McExecute ==
    /\ phase \in {"planned", "given"} /\ drawn = NoResult
    /\ \E fails \in SUBSET (1 .. Len(plan)) : drawn' = McFrom(plan, 1, asked.state, fails)
    /\ UNCHANGED <<problem, searchVars, phase, asked, plan, memory, simulated, kept, skipped, newPlan>>

\* tw_plan is called: a new search with empty caches.
StartSearch(s, blacklist) ==
    /\ problem' = [problem EXCEPT !.state = s, !.blacklist = blacklist]
    /\ stack' = <<Frame(s, problem.tasks, MaxDepth)>>
    /\ outcome' = "running" /\ phase' = "searching"
    /\ UNCHANGED <<ret, failCache, successCache, scores, result, starved>>

\* Faulty replan: the failed command may be tried again.
BlacklistedNever(sim) == {}

\* The command that failed, if one did.
Blacklisted(sim) == IF sim.failed = 0 THEN {} ELSE {plan[sim.failed]}

\* tw_replan
ReplanFull(failStep) ==
    /\ phase \in {"planned", "given"}
    /\ LET sim == SimulateTo(plan, asked.state, failStep)
       IN  simulated' = sim /\ StartSearch(sim.state, Blacklisted(sim))
    /\ UNCHANGED <<asked, plan, memory, kept, skipped, newPlan, drawn>>

\* tw_replan_incremental, with the tree of the plan: nothing failed, no choice
\* is left above the failed step, or there is one to go back to.
ReplanIncremental(failStep) ==
    LET sim == SimulateTo(plan, asked.state, failStep)
        choice == NearestRetryableAncestor(memory.nodes, memory.actions[sim.failed])
        node == memory.nodes[choice]
        prefix == SubSeq(plan, 1, PrefixLength(node))
    IN  /\ phase = "planned"
        /\ simulated' = sim
        /\ \/ /\ sim.failed = 0
              /\ newPlan' = plan /\ phase' = "done"
              /\ UNCHANGED <<problem, searchVars, kept, skipped>>
           \/ /\ sim.failed # 0 /\ choice = 0
              /\ StartSearch(sim.state, Blacklisted(sim))
              /\ UNCHANGED <<kept, skipped, newPlan>>
           \/ /\ sim.failed # 0 /\ choice # 0
              /\ kept' = prefix /\ skipped' = {<<node.key, node.method>>}
              /\ problem' = [problem EXCEPT !.state = Simulate(prefix, asked.state).state,
                                            !.blacklist = Blacklisted(sim)]
              /\ phase' = "retrying"
              /\ UNCHANGED <<searchVars, newPlan>>
        /\ UNCHANGED <<asked, plan, memory, drawn>>

\* tw_plan at work, and its result.
Searching == phase = "searching" /\ Search /\ UNCHANGED replanVars
Expired == phase = "searching" /\ Timeout /\ UNCHANGED replanVars

SearchReturns ==
    /\ phase = "searching" /\ outcome \in {"plan", "no_plan"}
    /\ newPlan' = IF outcome = "plan" THEN [i \in 1 .. Len(result) |-> result[i].call] ELSE Nil
    /\ phase' = "done"
    /\ UNCHANGED <<problem, searchVars, asked, plan, memory, simulated, kept, skipped, drawn>>

\* The tree search from the choice, for all the original tasks.
Retry ==
    /\ phase = "retrying"
    /\ LET r == PlanWithTree(skipped)
       IN  /\ memory' = r.memory
           /\ newPlan' = IF r.plan = Nil THEN Nil ELSE kept \o r.plan
    /\ phase' = "done"
    /\ UNCHANGED <<problem, searchVars, asked, plan, simulated, kept, skipped, drawn>>

ReplanNext ==
    \/ PlanFirst \/ GivePlan \/ McExecute
    \/ (plan # Nil /\ \E k \in 0 .. Len(plan) : ReplanFull(k) \/ ReplanIncremental(k))
    \/ Searching \/ Expired \/ SearchReturns \/ Retry

\* A search is not left halfway.
ReplanSpec == ReplanInit /\ [][ReplanNext]_allVars /\ WF_allVars(Searching)

-----------------------------------------------------------------------------
(* Properties                                                              *)

IsTree(nodes) ==
    /\ \A n \in 2 .. Len(nodes) :
          /\ nodes[n].parent \in 1 .. n - 1
          /\ \E i \in DOMAIN nodes[nodes[n].parent].children : nodes[nodes[n].parent].children[i] = n
    /\ \A n \in DOMAIN nodes : \A i \in DOMAIN nodes[n].children :
          /\ nodes[n].children[i] \in DOMAIN nodes
          /\ nodes[nodes[n].children[i]].parent = n

\* m records how p was derived.
Mirrors(m, p) ==
    /\ IsTree(m.nodes)
    /\ p = [i \in DOMAIN m.actions |-> m.nodes[m.actions[i]].key]
    /\ \A n \in DOMAIN m.nodes :
          /\ m.nodes[n].kind = "action" => m.actions[m.nodes[n].step] = n
          /\ m.nodes[n].kind \in {"task", "goal"} =>
                \A i \in DOMAIN m.actions : i <= PrefixLength(m.nodes[n]) <=> m.actions[i] < n

\* The tree and the plan agree after any number of rollbacks: parents and
\* children are inverse, the action nodes are the plan in order, and each
\* choice knows how many actions were planned before it.  A search that fails
\* leaves nothing but the root.
TreeMirrorsPlan ==
    /\ phase = "planned" => Mirrors(memory, plan)
    /\ phase = "done" /\ skipped # {} =>
          Mirrors(memory, IF newPlan = Nil THEN <<>> ELSE SubSeq(newPlan, Len(kept) + 1, Len(newPlan)))
    /\ plan = Nil => Len(memory.nodes) = 1 /\ memory.actions = <<>>

\* "number of actions successfully applied", "state after completed_steps
\* actions": what a replan reports of the simulation is so for a plan the
\* planner made, wherever the caller says it failed.  And for a plan of known
\* actions mc_execute stops where tw_simulate would, or at the first step drawn
\* as a failure before that, and in the same state.
ExecutionExact ==
    /\ simulated # NoResult /\ memory.actions # <<>> /\ skipped = {} =>
          Simulate(SubSeq(plan, 1, simulated.completed), asked.state)
              = [completed |-> simulated.completed, failed |-> 0, state |-> simulated.state]
    /\ drawn # NoResult /\ (\A i \in DOMAIN plan : IsAction(D, plan[i])) =>
          LET full == Simulate(plan, asked.state)
          IN  /\ drawn.completed <= full.completed
              /\ full.failed # 0 => drawn.failed \in 1 .. full.failed
              /\ drawn.failed \in {0, drawn.completed + 1}
              /\ drawn.state = Simulate(SubSeq(plan, 1, drawn.completed), asked.state).state
=============================================================================
