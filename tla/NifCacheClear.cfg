SPECIFICATION MCSpec
SYMMETRY MCSymmetry
CHECK_DEADLOCK FALSE
CONSTANTS
    Thread = {t1, t2, t3}
    Json = {good, bad}
    Valid = {good}
    MaxCalls = 2
    Entity = {e1, e2, e3}
    LOC = LOC
    ON = ON
    Relations <- MCRelations
    Exprs <- MCExprs
    MaxFuel = 4
    MaxEdges = 3
    Wholes = {3}
    Fractions <- MCFractions
    MaxTokens = 4
    Invalid = Invalid
    Durations <- MCDurations
    Origins <- MCOrigins
    References <- MCReferences
    MaxActions = 3
    Nil = Nil
INVARIANT OneGraphCopy
