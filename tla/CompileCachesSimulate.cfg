\* Simulations, which load source roots.
SPECIFICATION Spec
CONSTANTS
    Requests = {r1, r2}
    Changers = {}
    Kinds <- MCSimulations
    r1 = r1
    r2 = r2
    Changes = {}
    Capacity = 1
    MaxEpoch = 0
    MaxRevision = 1
    Free = Free
INVARIANT HitIsNotOlder
CHECK_DEADLOCK FALSE
