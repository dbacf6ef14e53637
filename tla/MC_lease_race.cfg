CONSTANTS
    r1 = r1
    r2 = r2
    r3 = r3
    Runs <- ThreeRuns
    Nobody = Nobody
    Timeout = 2
    MaxTime = 5
SPECIFICATION Spec
CHECK_DEADLOCK FALSE
INVARIANTS
    SingleFlight
