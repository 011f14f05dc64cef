CONSTANTS
  None = None
  Unset = Unset
  Handles = {h1, h2}
  Names = {s1, s2}
  Presets = {"minilm", "bge"}
  Dims = {384}
  Embedders = {"external", "minilm"}
  Requests <- MCRequests
  MaxCalls = 4
  MaxFaults = 1
SPECIFICATION Spec
INVARIANTS ManifestTrue LocksAccounted OptionsKept
PROPERTY SpacesKept
