SPECIFICATION Spec
CONSTANTS
    NumKeys = 2
    MaxMsg = 2
    MaxDay = 1
    QuietDay = 2
    ExcludedKeys = {}
    UnlistedKeys = {}
    RichKeys = {}
    UnreachableKeys = {}
    BakKeep = 0
    MaxFaults = 1
    MaxEntries = 2
    MaxBatches = 2
    PerEntry = 2
    PageLimit = 1
    ReportKey = 1
    MaxPasses = 3
    ScanLimit = 1
    Damaged = {2}
    WorkerRuns = FALSE
INVARIANTS
    CloseoutComplete
    EvidenceFirst
    NoChasing
CHECK_DEADLOCK FALSE
