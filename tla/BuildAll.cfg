SPECIFICATION Spec
CONSTANTS
  Options <- AllOptions
  Parallel = 2
  AflInstalled = TRUE
  BinAtStart <- AnyBin
  MaxVersion = 2
  MaxRuns = 3
INVARIANTS
  TypeOK
  SuccessIsFresh
  CleanLeavesNothingOld
  CleanSuccessIsBuilt
  OnlyUnbuiltMissing
CHECK_DEADLOCK FALSE
