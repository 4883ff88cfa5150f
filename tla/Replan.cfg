SPECIFICATION MCReplanSpec
CHECK_DEADLOCK FALSE
CONSTANTS
    Domain <- AllDomain
    State <- MCState
    Call <- MCCall
    Binding <- MCBinding
    Problem <- AllProblem
    IsAction <- MCIsAction
    Effect <- MCEffect
    MethodCount <- MCMethodCount
    Method <- MCMethod
    Holds <- MCHolds
    MaxMethods = 3
    MaxDepth = 6
    Nil = Nil
    GivenPlans <- RPGivenPlans
INVARIANT PlanExecutes
INVARIANT PlanExact
INVARIANT TreeMirrorsPlan
INVARIANT TreePlanExact
INVARIANT RecoveryExact
INVARIANT ExecutionExact
PROPERTY Terminates
