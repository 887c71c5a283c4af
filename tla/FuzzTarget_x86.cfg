SPECIFICATION Spec
CONSTANTS
  Regions <- SourceRegions
  AddrSpace = 2147483647
  PacketSize = 120
  MaxLoadRam = 1048576
  MaxLoadEeprom = 131072
  RamBase <- X86RamBase
  EepromBase <- X86EepromBase
  OffsetSpan = 1342177280
  MemoryAlignment = 4
  SymbolLens <- SourceSymbolLens
  SymbolStride = 4096
  LookupBase <- X86RamBase
  PathLens <- SourcePathLens
  SuffixLen = 12
  DefaultPathLen = 20
  OS_MAX_API_NAME = 20
  OS_MAX_PATH_LEN = 64
  MallocMayFail = FALSE
  Inputs <- SourceInputs
INVARIANTS
  AcceptedLoadFits
  SymbolLoadsAreRam
  BaseIsLoadable
  HelpersAgree
  HeadersAgree
