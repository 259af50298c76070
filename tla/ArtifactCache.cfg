\* Two processes that load a file three times in all, with one crash or failed rename.
CONSTANTS
    p1 = p1
    p2 = p2
    c1 = c1
    c2 = c2
    None = None
    Torn = Torn
    NoLock = NoLock
    Empty = Empty
    Processes = {p1, p2}
    Contents = {c1, c2}
    First = c1
    MaxMemory = 1
    MaxLoads = 3
    MaxEdits = 1
    MaxFaults = 1
SPECIFICATION FairSpec
INVARIANTS TypeOK LoadedWasThere PrunersBoundedByTakeovers
PROPERTIES StaleLockIsTakenOver
CHECK_DEADLOCK FALSE
