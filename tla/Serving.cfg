SPECIFICATION Spec
CONSTANTS
  Ids = {1, 2}
  Singles = {1}
  PageSize = 1
  BrowseLimit = 1
  ReadYourWrites = TRUE
  None = None
  Limits = {None, 1}
  TransportRetries = 1
  ConflictRetries = 1
  MaxLog = 2
  MaxCalls = 2
  BorrowedCalls = 1
  CreateConflictRetries = 1
INVARIANTS PoolsHeld ConnectedAsNamed WrittenOnce SessionReadsOwnWrites GetTextsExact WalkExact
PROPERTY CallsReturn
CHECK_DEADLOCK FALSE
