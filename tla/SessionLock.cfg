\* Symbol requests, a reader and writers.
SPECIFICATION FairSpec
CONSTANTS
    Symbols = {s1, s2}
    Readers = {r1}
    Writers = {w1, w2}
    Free = Free
INVARIANT SnapshotIsCurrent
PROPERTY OnlyReentryBlocks
CHECK_DEADLOCK FALSE
