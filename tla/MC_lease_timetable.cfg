CONSTANTS
    r1 = r1
    r2 = r2
    r3 = r3
    Runs <- ThreeRuns
    Nobody = Nobody
    Timeout = 2
    MaxTime = 5
SPECIFICATION SyncFairSpec
CHECK_DEADLOCK FALSE
PROPERTIES
    OnlyOwnerReleases
    ImplementsLease
    EveryRunGetsItsTurn
