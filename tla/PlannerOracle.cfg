SPECIFICATION Spec
CHECK_DEADLOCK FALSE
CONSTANTS
    Domain <- MCDomain
    State <- MCState
    Call <- MCCall
    Binding <- MCBinding
    Problem <- MCProblem
    IsAction <- MCIsAction
    Effect <- MCEffect
    MethodCount <- MCMethodCount
    Method <- MCMethod
    Holds <- MCHolds
    MaxMethods = 2
    MaxDepth = 4
    Nil = Nil
INVARIANT OracleSound
