CONSTANTS
  p1 = p1  p2 = p2
  NoProc = NoProc
  Procs = {p1, p2}
  MaxTokens = 2
  MaxFaults = 2
SPECIFICATION FairSpec
CHECK_DEADLOCK FALSE
INVARIANTS TypeOK SetupTruth NoOverlap
PROPERTIES RevokedSoon RotationHeals
