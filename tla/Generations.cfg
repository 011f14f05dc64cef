SPECIFICATION Spec
CONSTANTS
  Docs = {d1, d2}
  Corrupt = Corrupt
  Closed = Closed
  MaxGen = 3
  MaxCrashes = 1
  MaxSegments = 2
  Retained = 2
SYMMETRY Symmetry
INVARIANTS RootIntact ReaderExact ReaderServed
PROPERTY ImplementsAtomic
CHECK_DEADLOCK FALSE
CONSTRAINT BeforeSlips
