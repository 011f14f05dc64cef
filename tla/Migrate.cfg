CONSTANTS
  None = None
  Keys = {1, 2, 3}
  EXPORT_BATCH = 2
  WRITE_BATCH = 2
  MaxRuns = 2
  MaxFlaws = 1
  MaxEdits = 1
SPECIFICATION Spec
INVARIANT PublishedComplete
PROPERTIES TargetKept RunEnds
CHECK_DEADLOCK FALSE
