SPECIFICATION Spec
CONSTANTS
    t1 = t1
    t2 = t2
    t3 = t3
    a1 = a1
    a2 = a2
    p1 = p1
    p2 = p2
    assignment = assignment
    v1 = v1
    v2 = v2
    NoAction = NoAction
    NoPlan = NoPlan
    Threads <- MCThreads
    Actions <- MCActions
    Plans <- MCPlans
    Targets <- MCTargets
    Versions <- OneVersion
    TargetOf <- MCTargetOf
    ActionTtl = 1
    PlanTtl = 1
    MaxTime = 1
    MaxCrashes = 1
    ClickBridge = TRUE
SYMMETRY Symmetry
CHECK_DEADLOCK FALSE
INVARIANTS
    PendingTogether
    SingleFlight
    AtMostOneDispatch
    GrantDiscipline
    SuccessIsProven
PROPERTIES
    ImplementsAuthority
    SettledStays
