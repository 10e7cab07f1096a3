CONSTANTS
  Threads = {t1, t2}
  Tokens = {k1}
  Runs = {r1, r2}
  MaxDepth = 4
  None = None
SPECIFICATION FairSpec
INVARIANTS
    CapabilityInv
PROPERTIES
    CloseTakesEffect
CHECK_DEADLOCK FALSE
