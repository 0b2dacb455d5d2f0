SPECIFICATION FairSpec
CONSTANTS
    None = None
    s1 = s1
    s2 = s2
    Sends = {s1, s2}
    Keys = {"k1", "k2", "n1", "n2", "d1"}
    Setups <- MCSetups
    MaxLifetime = 4
    CredLifetime = 30
    Leeway = 1
    InitialDelay = 4
    MaxDelay = 6
    Timeout = 1
    Retention = 8
    CacheTtl = 25
    CacheLeeway = 1
    Lookback = 5
CHECK_DEADLOCK FALSE
INVARIANTS
    TypeOK
    CopiesExplained
    RetriesAreNew
    AttemptsInBudget
    GenuineNotRefused
    
PROPERTIES
    PinStable
    EverySendEnds
