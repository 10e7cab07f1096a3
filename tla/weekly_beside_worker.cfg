SPECIFICATION Spec
CONSTANTS
    NumKeys = 1
    MaxMsg = 2
    MaxDay = 2
    QuietDay = 3
    ExcludedKeys = {}
    UnlistedKeys = {}
    RichKeys = {}
    UnreachableKeys = {}
    BakKeep = 0
    MaxFaults = 1
    MaxEntries = 2
    MaxBatches = 2
    PerEntry = 2
    PageLimit = 2
    ReportKey = 0
    MaxPasses = 3
    ScanLimit = 1
    Damaged = {}
    WorkerRuns = TRUE
INVARIANTS
    ReconcileInv
CHECK_DEADLOCK FALSE
