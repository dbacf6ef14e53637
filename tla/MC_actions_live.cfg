SPECIFICATION FairSpec
CONSTANTS
    t1 = t1
    t2 = t2
    t3 = t3
    a1 = a1
    a2 = a2
    p1 = p1
    p2 = p2
    assignment = assignment
    v1 = v1
    v2 = v2
    NoAction = NoAction
    NoPlan = NoPlan
    Threads <- MCThreads
    Actions <- OneAction
    Plans <- OnePlan
    Targets <- MCTargets
    Versions <- MCVersions
    TargetOf <- MCTargetOf
    ActionTtl = 1
    PlanTtl = 1
    MaxTime = 2
    MaxCrashes = 0
    ClickBridge = TRUE
CHECK_DEADLOCK FALSE
INVARIANTS
    InvalidatedSubmitsNothing
PROPERTIES
    ExecutionResolves
    ApprovedIsDecided
