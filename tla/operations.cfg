CONSTANTS
  Procs = {p1, p2}
  NoTree = NoTree
  None = None
  MaxDay = 3
  MaxVersion = 1
  MaxFaults = 1
  MaxOver = 1
  Schedule <- Cron
  AssetAge = 0
  MaxStarts = 5
  p1 = p1
  p2 = p2
SPECIFICATION Spec
VIEW Fresh
SYMMETRY Alike
INVARIANTS
    OperationsInv
PROPERTIES
    LatestForward
    NothingLost
    GreenMeansCopies
    TroubleShown
CHECK_DEADLOCK FALSE
