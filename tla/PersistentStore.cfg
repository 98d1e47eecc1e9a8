CONSTANTS
  Kinds = {"config", "log"}
  Sectors = 3
  MaxIssued = 6
  MaxFormats = 1
  MaxFails = 3
  SkipReads = TRUE
SPECIFICATION Spec
INVARIANTS OldOrNew RetainedUnlessSkipped
CHECK_DEADLOCK FALSE
