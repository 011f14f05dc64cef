SPECIFICATION Spec
CONSTANTS
  Devices = {d1, d2}
  Stores = {text, lex}
  None = None
  MaxWrites = 2
  MaxCommits = 2
  MaxCalls = 4
  MaxForces = 1
  MaxFaults = 1
SYMMETRY Symmetry
INVARIANT BaseWasPublished
PROPERTIES NothingLostSilently UpgradeOnlyAdds
CHECK_DEADLOCK FALSE
