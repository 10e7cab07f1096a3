CONSTANTS
  Contents = {c1, c2}
  Unclassified = {c2}
  Mutables = {m1, m2}
  Blobs <- MCBlobs
  Assets = {"direct", "proxy", "embed"}
  SentSize = 1
  MaxTime = 2
  MaxDrifts = 1
  MaxMoves = 1
  PerMessageFiles = 6
  RunFiles = 8
  MaxProbes = 1
  Absent = Absent
SPECIFICATION RecordSpec
SYMMETRY MCSymmetry
INVARIANTS
    RecordInv
PROPERTIES
    NothingForgotten
    BytesKept
    RefusedForCause
CHECK_DEADLOCK FALSE
