SPECIFICATION MCSpec
CHECK_DEADLOCK FALSE
CONSTANTS
    p = p
    q = q
    loot = loot
    combat = combat
    None = None
    Client <- MCClient
    Starter = p
    Capability <- MCCapability
    Cost <- MCCost
    Fuel = {2, 3}
    MaxCalls = 2
    ComboMinGap = 6
    ComboMaxGap = 18
    InvulnTicks = 30
    EnemyMaxHp = 100
    MaxTick = 44
    Item = {1, 2}
    Art = {1, 2, 3}
    Price = {0, 300}
    MaxGrants = 2
    MaxAffinity = 41
    Seed = {0, 1, 42, 65536, 2147483647}
    LootItem = {1, 2}
    Weight = {0, 1, 3}
    MaxEntries = 3
INVARIANT DamageAccounted
INVARIANT RecordMatchesLog
INVARIANT RollIsFair
PROPERTY ServiceRefined
PROPERTY EveryCallEnds
PROPERTY StageOrder
