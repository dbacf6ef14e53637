CONSTANTS
    t1 = t1
    t2 = t2
    NoTask = NoTask
    Tasks <- PairTasks
    Downloads <- OneTask
    Strays = {"fit", "empty"}
    MaxFaults = 1
SPECIFICATION FairSpec
CHECK_DEADLOCK FALSE
INVARIANTS
    RowsSettle
    CompletedWentWell
    
PROPERTIES
    QueuedCancelHolds
    EveryTaskEnds
