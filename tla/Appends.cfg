SPECIFICATION Spec
CONSTANTS
  Appenders = {a1, a2}
  Writers = {w1}
  Ckpts = {c1}
  Readers = {}
  None = None
  MaxRecs = 3
  MaxCrashes = 1
  TornWrites = TRUE
  Modes = {"wal"}
  MaxBump = 1
  MaxAttempts = 8
SYMMETRY Symmetry
INVARIANTS AckedDurable LsnUnique
PROPERTIES AppendAscends CommitKeepsBase
CHECK_DEADLOCK FALSE
