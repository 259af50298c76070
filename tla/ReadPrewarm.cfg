\* Two handlers, each with a spawn of its own, and two mutations.
SPECIFICATION FairSpec
CONSTANTS
    Handlers = {h1, h2}
    NoRevision = NoRevision
    Free = Free
    MaxMutations = 2
CHECK_DEADLOCK FALSE
INVARIANTS
    TypeOK
    PendingHasTask
    SleeperIsCovered
PROPERTY
    WaitersReturn
