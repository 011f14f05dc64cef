SPECIFICATION Spec
CONSTANTS
  Appenders = {a1}
  Writers = {w1}
  Ckpts = {}
  Readers = {r1}
  None = None
  MaxRecs = 2
  MaxCrashes = 0
  TornWrites = FALSE
  Modes = {"wal", "generation"}
  MaxBump = 1
  MaxAttempts = 8
INVARIANTS ReadYourWrites RefreshIsFresh
CHECK_DEADLOCK FALSE
