SPECIFICATION MCSpec
CHECK_DEADLOCK FALSE
CONSTANTS
    MaxDatagrams = 3
    MaxErrors = 2
    MaxBurst = 2
    SendMayFail = TRUE
    Player = {p1, p2}
    Ticks = 2
    MaxPackets = 2
    RampStarts = {0, 5, 6}
    MaxPlayers = 10
    ShardCounts = {1, 2}
    Client = {1, 2, 3, 4}
    Permits = 2
    Amounts <- MCAmounts
    UpTo = {4}
    Holder = {1, 2, 3}
    UnrestrictedPermits = 1
    BoundedPermits = 1
    MaxPermit = 6
    User = {1, 2, 3, 4}
    Priority = {0, 1}
    Class <- MCClass
    Concurrency = 2
    Weights <- MCWeights
INVARIANT ExitMeansQueued
INVARIANT LastGoodSustained
INVARIANT AccountsKept
INVARIANT LimitsKept
INVARIANT NoneIdle
PROPERTY EveryDatagramTaken
PROPERTY ClientEnds
PROPERTY RampEnds
PROPERTY UnitTakersServed
PROPERTY TakeReturns
PROPERTY ShareIsServed
