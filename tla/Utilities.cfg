SPECIFICATION UtilSpec
CONSTANTS
  Regions <- Map
  AddrSpace = 64
  LookupBase = 32
  LookupStride = 4
  MaxLoadRam = 6
  MaxLoadEeprom = 4
  OS_MAX_PATH_LEN = 8
  NameLens <- SomeNames
  Offsets <- AllAddresses
  Sizes <- SomeSizes
  MemTypes <- SomeTypes
  Procs = {p1, p2}
  Files = {file}
  Null = Null
  Stdout = Stdout
  MaxMessages = 2
  MaxCrashes = 1
  StartClock = 3
  TimeSpace = 16
  MaxAge = 3
  MaxResults = 2
  MaxJump = 2
  MaxClockSets = 1
  InitialCrcs <- SomeInitials
  Bytes <- SomeBytes
  MaxBytes = 4
INVARIANTS
  RegionVerdictExact
  VerifiedTypesWritable
  AlignedDatumFits
  LogTypeOK
  OneStream
  WholeLines
  Delivered
  CategoriesAddUp
  PrintedTimeExact
  HeldTimeNeverAhead
  RightWhileInTable
  MissesForget
PROPERTIES
  LogKept
  ImplementsLineLog
CHECK_DEADLOCK FALSE
