CONSTANTS
    q1 = q1
    q2 = q2
    Queues = {q1, q2}
    ModelCount = 2
    Capacity = 3
    Cost = 2
    MaxFaults = 2
SPECIFICATION FairSpec
INVARIANTS
    TypeOK
    OneRowEach
    RowIsForItsModel
    RowIsOfThisRun
    MemoryBounded
PROPERTIES
    WatchdogStopIsReported
    PoolFinishes
CHECK_DEADLOCK FALSE
