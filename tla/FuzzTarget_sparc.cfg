SPECIFICATION Spec
CONSTANTS
  Regions <- SourceRegions
  AddrSpace = 2147483647
  PacketSize = 120
  MaxLoadRam = 1048576
  MaxLoadEeprom = 131072
  RamBase <- SparcRamBase
  EepromBase <- SparcEepromBase
  OffsetSpan = 1072693247
  MemoryAlignment = 8
  SymbolLens <- SourceSymbolLens
  SymbolStride = 4096
  LookupBase <- X86RamBase
  PathLens <- SourcePathLens
  SuffixLen = 12
  DefaultPathLen = 20
  OS_MAX_API_NAME = 20
  OS_MAX_PATH_LEN = 64
  MallocMayFail = FALSE
  Inputs <- SourceInputs
INVARIANT BaseIsLoadable
