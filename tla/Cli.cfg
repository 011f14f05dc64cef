SPECIFICATION Spec
CONSTANTS
  Hosts = {hosted, staging}
  None = None
  MaxTokens = 5
  MaxCommands = 3
INVARIANTS RotateHonest KeysNeverAccumulate LinkedKey
CHECK_DEADLOCK FALSE
