SPECIFICATION FairSpec
CONSTANTS
    NumKeys = 2
    MaxMsg = 2
    MaxDay = 2
    QuietDay = 2
    ExcludedKeys = {}
    UnlistedKeys = {1}
    RichKeys = {}
    UnreachableKeys = {1}
    BakKeep = 0
    MaxFaults = 1
    MaxEntries = 2
    MaxBatches = 3
    PerEntry = 2
    PageLimit = 1
    MaxAudits = 0
    Scheduled = {"worker", "inventory"}
INVARIANTS
    IInv
    ReplayInv
PROPERTIES
    StateMonotonic
    EventuallyArchived
    EventuallyDrained
CHECK_DEADLOCK FALSE
