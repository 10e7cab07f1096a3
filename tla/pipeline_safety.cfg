SPECIFICATION Spec
CONSTANTS
    NumKeys = 2
    MaxMsg = 2
    MaxDay = 1
    QuietDay = 2
    ExcludedKeys = {2}
    UnlistedKeys = {}
    RichKeys = {}
    UnreachableKeys = {}
    BakKeep = 1
    MaxFaults = 1
    MaxEntries = 1
    MaxBatches = 2
    PerEntry = 2
    PageLimit = 1
    MaxAudits = 1
    Scheduled = {"worker", "audit"}
INVARIANTS
    IInv
    NoDuplicateRaw
PROPERTIES
    KeepsContract
    ExcludedTerminal
CHECK_DEADLOCK FALSE
