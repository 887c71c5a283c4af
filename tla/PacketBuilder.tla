---------------------------- MODULE PacketBuilder ----------------------------
(***************************************************************************)
(* MM_Load_ConstructPacket, statement by statement, and the simulator that *)
(* judges the packet it returns.                                           *)
(*                                                                         *)
(* The builder walks a cursor (data_offset) over the caller's bytes and    *)
(* fills one field of the command per step; pc names the field set next.   *)
(* The bytes are an input record holding the value each field would read   *)
(* at its position, and the number of bytes there are.  Names are kept as  *)
(* their strlen: nothing in the harness looks at more of them than that,   *)
(* apart from the "../" test, which no entry of the tables can meet.       *)
(***************************************************************************)
EXTENDS CfsMemory, MsgHeader

CONSTANTS
  PacketSize,        \* sizeof(MM_LoadMemFromFileCmd_t)
  MaxLoadRam,        \* MM_MAX_LOAD_FILE_DATA_RAM
  MaxLoadEeprom,     \* MM_MAX_LOAD_FILE_DATA_EEPROM
  RamBase,           \* CFS_DEFAULT_RAM_ADDR
  EepromBase,        \* CFS_DEFAULT_EEPROM_ADDR
  OffsetSpan,        \* 0x7FFFFFFF + 1, the offsets the mask lets through
  MemoryAlignment,   \* CFS_MEMORY_ALIGNMENT
  SymbolLens,        \* strlen of each entry of cfs_valid_symbols
  SymbolStride,      \* 0x1000, the distance between simulated symbols
  PathLens,          \* strlen of each entry of cfs_valid_paths
  SuffixLen,         \* strlen("testfile.bin")
  DefaultPathLen,    \* strlen("/cf/apps/default.bin")
  OS_MAX_API_NAME,
  OS_MAX_PATH_LEN,
  MallocMayFail,     \* whether malloc may return NULL
  Inputs             \* the inputs a caller may hand over

VARIABLES
  pc,       \* where the harness is: "idle" outside a call, else the next step
  data,     \* the input of the current call
  cursor,   \* data_offset
  packet,   \* *packet
  live      \* packets allocated and not freed

Byte == 0 .. 255

Input ==
  [size : Nat, memtype : Byte, numbytes : Nat, crc : Nat,
   choice : Byte, symbol : Byte, offset : Nat, path : Byte]

\* Between calls.
NoInput ==
  [size |-> 0, memtype |-> 0, numbytes |-> 0, crc |-> 0,
   choice |-> 0, symbol |-> 0, offset |-> 0, path |-> 0]

Packet ==
  [StreamId : Nat, Sequence : Nat, Length : Nat, MemType : Nat, NumOfBytes : Nat,
   CRC : Nat, SymLen : Nat, Offset : Nat, FileLen : Nat]

ASSUME BuilderAssumption ==
  /\ PacketSize \in Nat \ {0} /\ OffsetSpan \in Nat \ {0} /\ MemoryAlignment \in Nat \ {0}
  /\ MaxLoadRam \in Nat \ {0} /\ MaxLoadEeprom \in Nat \ {0}
  /\ RamBase \in Nat /\ EepromBase \in Nat /\ SymbolStride \in Nat
  /\ SuffixLen \in Nat /\ DefaultPathLen \in Nat \ {0}
  /\ OS_MAX_API_NAME \in Nat \ {0, 1} /\ OS_MAX_PATH_LEN \in Nat \ {0, 1}
  /\ SymbolLens \in Seq(Nat \ {0}) /\ Len(SymbolLens) > 0
  /\ PathLens \in Seq(Nat \ {0}) /\ Len(PathLens) > 0
  /\ MallocMayFail \in BOOLEAN
  /\ Inputs \subseteq Input

builderVars == <<pc, data, cursor, packet, live>>

-----------------------------------------------------------------------------
(* Pieces of the construction. *)

\* sizeof of the pointer instead of the command.
TooShort_PointerSize(n) == n < 8

\* The test both the entry point and the builder make before anything else.
TooShort(n) == n < PacketSize

\* memset(packet, 0, PACKET_SIZE)
ZeroedPacket ==
  [StreamId |-> 0, Sequence |-> 0, Length |-> 0, MemType |-> 0, NumOfBytes |-> 0,
   CRC |-> 0, SymLen |-> 0, Offset |-> 0, FileLen |-> 0]

MM_CMD_MID == 6280
MM_LOAD_MEM_FROM_FILE_CC == 5
MM_NOOP_CC == 0

\* The flag written before the count that overwrites it.
WithHeader_FlagFirst(p) ==
  LET sized == CFE_MSG_SetSize(CFE_MSG_SetMsgId(p, CFE_SB_ValueToMsgId(MM_CMD_MID)), PacketSize)
  IN  CFE_MSG_SetSequenceCount(CFE_MSG_SetSegmentationFlag(sized, 3), 0)

WithHeader(p) ==
  LET sized == CFE_MSG_SetSize(CFE_MSG_SetMsgId(p, CFE_SB_ValueToMsgId(MM_CMD_MID)), PacketSize)
      whole == CFE_MSG_SetSegmentationFlag(CFE_MSG_SetSequenceCount(sized, 0), 3)
  IN  CFE_MSG_SetFcnCode(whole, MM_LOAD_MEM_FROM_FILE_CC)

\* data_offset + n <= Size
Available(n) == cursor + n <= data.size

MaxLoad(mem_type) == IF mem_type = MM_RAM THEN MaxLoadRam ELSE MaxLoadEeprom

BaseAddr_Swapped(mem_type) == IF mem_type = MM_RAM THEN EepromBase ELSE RamBase

BaseAddr(mem_type) == IF mem_type = MM_RAM THEN RamBase ELSE EepromBase

MemTypeOf_ThreeWay(b) == (b % 3) + 1

MemTypeOf(b) == (b % 2) + 1

NumOfBytes_NoPlusOne(raw, mem_type) == raw % MaxLoad(mem_type)

NumOfBytesOf(raw, mem_type) == (raw % MaxLoad(mem_type)) + 1

\* strlen of the copy CFS_SAFE_STRNCPY leaves in a buffer of the given size.
CopiedLen(len, size) == IF len < size THEN len ELSE size - 1

SymbolCopyLen(b) == CopiedLen(SymbolLens[(b % Len(SymbolLens)) + 1], OS_MAX_API_NAME)

\* The directory, then the suffix when the buffer has room for it.
FileLenOf(b) ==
  LET current == CopiedLen(PathLens[(b % Len(PathLens)) + 1], OS_MAX_PATH_LEN)
  IN  IF OS_MAX_PATH_LEN - current - 1 > SuffixLen THEN current + SuffixLen ELSE current

-----------------------------------------------------------------------------
(* MM_Load_ConstructPacket.  It ends at "built" or at "null", where the    *)
(* caller takes over with a packet or with NULL.                           *)

CheckSize ==
  /\ pc = "size"
  /\ pc' = IF TooShort(data.size) THEN "null" ELSE "malloc"
  /\ UNCHANGED <<data, cursor, packet, live>>

MallocFails ==
  /\ pc = "malloc"
  /\ MallocMayFail
  /\ pc' = "null"
  /\ UNCHANGED <<data, cursor, packet, live>>

Malloc ==
  /\ pc = "malloc"
  /\ live' = live + 1
  /\ packet' = ZeroedPacket
  /\ pc' = "header"
  /\ UNCHANGED <<data, cursor>>

SetHeader ==
  /\ pc = "header"
  /\ packet' = WithHeader(packet)
  /\ cursor' = 0
  /\ pc' = "MemType"
  /\ UNCHANGED <<data, live>>

SetMemType ==
  /\ pc = "MemType"
  /\ IF Available(1)
       THEN /\ packet' = [packet EXCEPT !.MemType = MemTypeOf(data.memtype)]
            /\ cursor' = cursor + 1
       ELSE /\ packet' = [packet EXCEPT !.MemType = MM_RAM]
            /\ UNCHANGED cursor
  /\ pc' = "NumOfBytes"
  /\ UNCHANGED <<data, live>>

SetNumOfBytes ==
  /\ pc = "NumOfBytes"
  /\ IF Available(4)
       THEN /\ packet' = [packet EXCEPT
                            !.NumOfBytes = NumOfBytesOf(data.numbytes, packet.MemType)]
            /\ cursor' = cursor + 4
       ELSE /\ packet' = [packet EXCEPT !.NumOfBytes = 1024]
            /\ UNCHANGED cursor
  /\ pc' = "CRC"
  /\ UNCHANGED <<data, live>>

SetCRC ==
  /\ pc = "CRC"
  /\ IF Available(4)
       THEN /\ packet' = [packet EXCEPT !.CRC = data.crc]
            /\ cursor' = cursor + 4
       ELSE UNCHANGED <<packet, cursor>>
  /\ pc' = "DestSymAddress"
  /\ UNCHANGED <<data, live>>

\* An even choice byte names a symbol, and leaves the address empty when the bytes
\* end there; an odd one gives an offset from the base of the memory type.
SymbolDest ==
  /\ data.choice % 2 = 0
  /\ IF Available(2)
       THEN /\ packet' = [packet EXCEPT !.SymLen = SymbolCopyLen(data.symbol), !.Offset = 0]
            /\ cursor' = cursor + 2
       ELSE /\ cursor' = cursor + 1
            /\ UNCHANGED packet

OffsetDest ==
  LET base == BaseAddr(packet.MemType)
  IN  /\ data.choice % 2 = 1
      /\ IF Available(9)
           THEN /\ packet' = [packet EXCEPT
                                !.SymLen = 0, !.Offset = base + (data.offset % OffsetSpan)]
                /\ cursor' = cursor + 9
           ELSE /\ packet' = [packet EXCEPT !.SymLen = 0, !.Offset = base]
                /\ cursor' = cursor + 1

SetDest ==
  /\ pc = "DestSymAddress"
  /\ IF Available(1) THEN SymbolDest \/ OffsetDest ELSE UNCHANGED <<packet, cursor>>
  /\ pc' = "FileName"
  /\ UNCHANGED <<data, live>>

SetFileName ==
  /\ pc = "FileName"
  /\ IF Available(1)
       THEN /\ packet' = [packet EXCEPT !.FileLen = FileLenOf(data.path)]
            /\ cursor' = cursor + 1
       ELSE /\ packet' = [packet EXCEPT !.FileLen = CopiedLen(DefaultPathLen, OS_MAX_PATH_LEN)]
            /\ UNCHANGED cursor
  /\ pc' = "built"
  /\ UNCHANGED <<data, live>>

MM_Load_ConstructPacket ==
  \/ CheckSize \/ MallocFails \/ Malloc \/ SetHeader \/ SetMemType
  \/ SetNumOfBytes \/ SetCRC \/ SetDest \/ SetFileName

-----------------------------------------------------------------------------
(* MM_LoadMemFromFileCmd_Simulation: a pure function of the packet. *)

\* A name counted from the base of the memory type.
ResolvedAddr_TypeBase(p) ==
  IF p.SymLen > 0 THEN (BaseAddr(p.MemType) + p.SymLen * SymbolStride + p.Offset) % AddrSpace
                  ELSE p.Offset

ResolvedAddr(p) ==
  IF p.SymLen > 0 THEN (RamBase + p.SymLen * SymbolStride + p.Offset) % AddrSpace
                  ELSE p.Offset

Simulation_NoAlignment(p) ==
  IF CFS_IsValidMemoryAddress(ResolvedAddr(p), p.MemType, p.NumOfBytes)
    THEN CFE_SUCCESS ELSE CFS_MM_ERROR_INVALID_ADDR

MM_LoadMemFromFileCmd_Simulation(p) ==
  IF p.MemType \notin {MM_RAM, MM_EEPROM} THEN CFS_MM_ERROR_INVALID_MEMTYPE
  ELSE IF p.NumOfBytes = 0 \/ p.NumOfBytes > MaxLoad(p.MemType) THEN CFS_MM_ERROR_INVALID_SIZE
  ELSE IF p.FileLen = 0 THEN CFS_MM_ERROR_INVALID_FILE
  ELSE IF ~CFS_IsValidMemoryAddress(ResolvedAddr(p), p.MemType, p.NumOfBytes)
    THEN CFS_MM_ERROR_INVALID_ADDR
  ELSE IF ResolvedAddr(p) % MemoryAlignment # 0 THEN CFS_MM_ERROR_ALIGNMENT
  ELSE CFE_SUCCESS

=============================================================================
