SPECIFICATION FairSpec
CONSTANTS
  Appenders = {a1, a2}
  Writers = {w1}
  Ckpts = {c1}
  Readers = {}
  None = None
  MaxRecs = 2
  MaxCrashes = 2
  TornWrites = TRUE
  Modes = {"generation"}
  MaxBump = 1
  MaxAttempts = 8
INVARIANT AckedDurable
PROPERTY AckedFolded
CHECK_DEADLOCK FALSE
