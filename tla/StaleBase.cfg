SPECIFICATION Spec
CONSTANTS
  Appenders = {a1}
  Writers = {w1}
  Ckpts = {c1}
  Readers = {}
  None = None
  MaxRecs = 2
  MaxCrashes = 0
  TornWrites = FALSE
  Modes = {"wal", "generation"}
  MaxBump = 1
  MaxAttempts = 8
PROPERTY FoldNeverClobbers
CHECK_DEADLOCK FALSE
