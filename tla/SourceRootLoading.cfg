\* Two requests, two roots, cancellations included.
SPECIFICATION FairSpec
CONSTANTS
    PathKeys = {p1, p2}
    Jobs = {j1, j2}
    NoOwner = NoOwner
    Free = Free
    NoPath = NoPath
    Cancellable = TRUE
    MaxEpoch = 2
CHECK_DEADLOCK FALSE
INVARIANTS
    TypeOK
    SingleFlight
    LoadedHasDocuments
PROPERTIES
    InstalledParseIsCurrent
    ReservationEndsByOwner
    ReservationLeaksOnlyByCancel
    JobsReturn
