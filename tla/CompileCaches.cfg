\* Preparations, prewarm jobs and hovers against edits, source-root loads and
\* reloads of the scenario configuration.
SPECIFICATION FairSpec
CONSTANTS
    Requests = {r1, r2}
    Changers = {c1}
    Kinds <- MCKinds
    r1 = r1
    r2 = r2
    Changes = {"editLocal", "editRoot", "save"}
    Capacity = 1
    MaxEpoch = 1
    MaxRevision = 1
    Free = Free
INVARIANTS TypeOK PreparedHitIsNotOlder HoverMemoConsistent SleeperHasJob
PROPERTIES JobStaysRegistered RequestsReturn
CHECK_DEADLOCK FALSE
