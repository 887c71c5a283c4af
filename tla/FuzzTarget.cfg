SPECIFICATION Spec
CONSTANTS
  Regions <- SmallRegions
  AddrSpace = 128
  PacketSize = 120
  MaxLoadRam = 6
  MaxLoadEeprom = 4
  RamBase = 40
  EepromBase = 8
  OffsetSpan = 64
  MemoryAlignment = 4
  SymbolLens <- SmallSymbolLens
  SymbolStride = 4
  LookupBase = 40
  PathLens <- SmallPathLens
  SuffixLen = 12
  DefaultPathLen = 20
  OS_MAX_API_NAME = 4
  OS_MAX_PATH_LEN = 64
  MallocMayFail = TRUE
  Inputs <- SmallInputs
INVARIANTS
  TypeOK
  CursorTracksFields
  NoLeak
  CommandWellFormed
  OnlyPlacementErrors
  IInv
  AcceptedLoadFits
PROPERTIES
  CallReturns
  ImplementsContract
