SPECIFICATION Spec
CONSTANTS
    Process = {p1, p2}
    Agent = {a1, a2}
    NoAgent = NoAgent
    DepSets <- TwoDeps
    Priority = {0}
    Thresholds = {0}
    STALE = 0
    MaxTasks = 3
    MaxTime = 2
    MaxCrashes = 1
    MaxCalls = 5
SYMMETRY Interchangeable
PROPERTIES OwnershipRespected OnlyOpenTasksClaimed NoLostUnblock
\* Every call ends, and no more start.
CHECK_DEADLOCK FALSE
