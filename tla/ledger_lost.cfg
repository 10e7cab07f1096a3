CONSTANTS
    Roles = {r1, r2}
    Adoptable = {r1}
    NoJob = NoJob
    None = None
    MaxFaults = 3
    MaxStarts = 1
    MaxRuns = 2
    r1 = r1
    r2 = r2
SPECIFICATION Spec

PROPERTIES StateKept
CHECK_DEADLOCK FALSE
