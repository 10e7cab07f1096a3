CONSTANTS
  Channels = {c1, c2}
  Messages = {m1}
  Watched <- OneChannelWatched
  Looks = {"plain", "changed"}
  MaxChanges = 2
  MaxFaults = 1
  MaxZeroRounds = 5
  None = None
  c1 = c1
  c2 = c2
  m1 = m1
SPECIFICATION FairSpec
INVARIANTS
    RebuildInv
    CompleteThroughCutoff
PROPERTIES
    PhaseForward
    RootKept
    Concludes
CHECK_DEADLOCK FALSE
