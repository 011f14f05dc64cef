SPECIFICATION Spec
CONSTANTS
  Handles = {h1, h2}
  Threads = {t1, t2}
  Ids = {1}
  Options <- MCOptions
  None = None
  MaxCalls = 3
  MaxFaults = 1
SYMMETRY Symmetry
INVARIANTS AckedSurvives PlanFresh DroppedAtHome NoCallStranded
CHECK_DEADLOCK FALSE
