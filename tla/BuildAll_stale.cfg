SPECIFICATION Spec
CONSTANTS
  Options <- StaleOptions
  Parallel = 2
  AflInstalled = FALSE
  BinAtStart <- BothBuilt
  MaxVersion = 2
  MaxRuns = 1
INVARIANT AnnouncedIsBuilt
CHECK_DEADLOCK FALSE
