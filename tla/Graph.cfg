CONSTANTS
  None = None
  Nodes = {1, 2}
  Edges <- MCEdges
  Texts = {t, u}
  Facts = {t}
  Vectors = {v}
  Points <- MCPoints
  MaxCalls = 3
  MaxCrashes = 1
SPECIFICATION Spec
INVARIANTS IndexFollows ReindexRestores KHopExact
CHECK_DEADLOCK FALSE
