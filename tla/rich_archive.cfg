CONSTANTS
  Entries = {e1, e2}
  MaxMsg = 2
  PageSize = 1
  MaxPages = 2
  MaxMessages = 2
  MaxEntries = 2
  MaxWrites = 1
  MaxRead = 2
  MaxTrouble = 1
  MaxBaselines = 2
  Silent = {e2}
  None = None
  e1 = e1
  e2 = e2
SPECIFICATION FairSpec
INVARIANTS
    ArchiveInv
    NoHole
PROPERTIES
    RootComplete
    ScanHonest
    Accounted
    Rescanned
CHECK_DEADLOCK FALSE
