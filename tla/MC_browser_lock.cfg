CONSTANTS
    s1 = s1
    s2 = s2
    s3 = s3
    i1 = i1
    i2 = i2
    i3 = i3
    i4 = i4
    Sessions <- TwoSessions
    Inodes <- ThreeInodes
    None = None
    MaxSessions = 2
SPECIFICATION FairSpec
CHECK_DEADLOCK FALSE
INVARIANTS
    LockIsReleasable
    RunsUnderLock
PROPERTIES
    EveryOpenIsAnswered
