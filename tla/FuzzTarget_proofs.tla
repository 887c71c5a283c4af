-------------------------- MODULE FuzzTarget_proofs --------------------------
(***************************************************************************)
(* Proofs about the harness, for every input set, memory map, base address *)
(* and limit that the assumptions of the modules allow.  The argument is   *)
(* one induction: IInv says which fields of the command are legal in each  *)
(* stage of the builder, so a packet that reaches the simulator is one its *)
(* own limits admit, and on such packets the address check is exact.       *)
(***************************************************************************)
EXTENDS FuzzTarget, TLAPS

\* A remainder is below its divisor.
LEMMA ModRange ==
  ASSUME NEW x \in Nat, NEW n \in Nat \ {0}
  PROVE  x % n \in 0 .. n - 1
BY SMT

\* A number below the divisor is its own remainder.
LEMMA ModSmall ==
  ASSUME NEW n \in Nat \ {0}, NEW x \in 0 .. n - 1
  PROVE  x % n = x
BY SMT

\* The header setters, in the order the builder calls them, leave a complete header.
LEMMA HeaderSetters ==
  ASSUME NEW p \in Packet
  PROVE  /\ WithHeader(p) \in Packet
         /\ WithHeader(p).StreamId = MM_CMD_MID % 65536
         /\ WithHeader(p).Length = PacketSize % 65536
         /\ WithHeader(p).Sequence = 3 * 16384
<1>. DEFINE a == CFE_MSG_SetMsgId(p, CFE_SB_ValueToMsgId(MM_CMD_MID))
            b == CFE_MSG_SetSize(a, PacketSize)
            c == CFE_MSG_SetSequenceCount(b, 0)
            d == CFE_MSG_SetSegmentationFlag(c, 3)
<1>1. a \in Packet /\ a.StreamId = MM_CMD_MID % 65536
  <2>1. MM_CMD_MID % 65536 \in Nat
    BY ModRange DEF MM_CMD_MID
  <2>. QED BY <2>1 DEF CFE_MSG_SetMsgId, CFE_SB_ValueToMsgId, Packet
<1>. HIDE DEF a
<1>2. b \in Packet /\ b.StreamId = a.StreamId /\ b.Length = PacketSize % 65536
  <2>1. PacketSize % 65536 \in Nat
    BY ModRange, BuilderAssumption
  <2>. QED BY <1>1, <2>1 DEF CFE_MSG_SetSize, Packet
<1>. HIDE DEF b
<1>3. c \in Packet /\ c.StreamId = b.StreamId /\ c.Length = b.Length /\ c.Sequence = 0
  <2>1. 0 % 65536 = 0
    BY SMT
  <2>. QED BY <1>2, <2>1 DEF CFE_MSG_SetSequenceCount, Packet
<1>. HIDE DEF c
<1>4. d \in Packet /\ d.StreamId = c.StreamId /\ d.Length = c.Length /\ d.Sequence = 3 * 16384
  <2>1. (c.Sequence % 16384) + ((3 % 4) * 16384) = 3 * 16384
    BY <1>3, SMT
  <2>. QED BY <1>3, <2>1 DEF CFE_MSG_SetSegmentationFlag, Packet
<1>. QED BY <1>1, <1>2, <1>3, <1>4 DEF WithHeader, CFE_MSG_SetFcnCode, a, b, c

-----------------------------------------------------------------------------
(* What the pieces of the builder return. *)

\* The memory type drawn from any byte is RAM or EEPROM.
LEMMA MemTypeLegal ==
  ASSUME NEW b \in Nat
  PROVE  MemTypeOf(b) \in {MM_RAM, MM_EEPROM}
<1>1. b % 2 \in 0 .. 1
  BY ModRange
<1>. QED BY <1>1 DEF MemTypeOf, MM_RAM, MM_EEPROM

\* Each memory type permits a load of at least a byte, so no size is taken modulo 0.
LEMMA MaxLoadPositive ==
  ASSUME NEW t
  PROVE  MaxLoad(t) \in Nat \ {0}
BY BuilderAssumption DEF MaxLoad

\* The size drawn from any word is one its memory type permits: neither 0 nor too large.
LEMMA NumOfBytesLegal ==
  ASSUME NEW raw \in Nat, NEW t
  PROVE  NumOfBytesOf(raw, t) \in 1 .. MaxLoad(t)
<1>1. raw % MaxLoad(t) \in 0 .. MaxLoad(t) - 1
  BY MaxLoadPositive, ModRange
<1>. QED BY <1>1, MaxLoadPositive DEF NumOfBytesOf

\* CFS_SAFE_STRNCPY of a non-empty string leaves a non-empty one that fits its buffer.
LEMMA CopyFits ==
  ASSUME NEW len \in Nat \ {0}, NEW size \in Nat \ {0, 1}
  PROVE  CopiedLen(len, size) \in 1 .. size - 1
BY DEF CopiedLen

\* A byte taken modulo the length of a table indexes an entry of it.
LEMMA EntryOf ==
  ASSUME NEW table \in Seq(Nat \ {0}), Len(table) > 0, NEW b \in Nat
  PROVE  table[(b % Len(table)) + 1] \in Nat \ {0}
<1>1. Len(table) \in Nat \ {0}
  OBVIOUS
<1>2. b % Len(table) \in 0 .. Len(table) - 1
  BY <1>1, ModRange
<1>3. (b % Len(table)) + 1 \in 1 .. Len(table)
  BY <1>1, <1>2
<1>. QED BY <1>3

\* A symbol name is copied to a non-empty, terminated string.
LEMMA SymbolFits ==
  ASSUME NEW b \in Nat
  PROVE  SymbolCopyLen(b) \in 1 .. OS_MAX_API_NAME - 1
<1>1. SymbolLens[(b % Len(SymbolLens)) + 1] \in Nat \ {0}
  BY EntryOf, BuilderAssumption
<1>. QED BY <1>1, CopyFits, BuilderAssumption DEF SymbolCopyLen

\* The file name is a non-empty, terminated string, with the suffix or without it.
LEMMA FileNameFits ==
  ASSUME NEW b \in Nat
  PROVE  FileLenOf(b) \in 1 .. OS_MAX_PATH_LEN - 1
<1>. DEFINE len == PathLens[(b % Len(PathLens)) + 1]
            current == CopiedLen(len, OS_MAX_PATH_LEN)
<1>1. len \in Nat \ {0}
  BY EntryOf, BuilderAssumption
<1>. HIDE DEF len
<1>2. current \in 1 .. OS_MAX_PATH_LEN - 1
  BY <1>1, CopyFits, BuilderAssumption
<1>. HIDE DEF current
<1>3. FileLenOf(b) = IF OS_MAX_PATH_LEN - current - 1 > SuffixLen
                       THEN current + SuffixLen ELSE current
  BY DEF FileLenOf, current, len
<1>. QED BY <1>2, <1>3, BuilderAssumption

-----------------------------------------------------------------------------
(* The simulator on a well-formed command. *)

CommandOK(p) ==
  /\ p \in Packet
  /\ p.MemType \in {MM_RAM, MM_EEPROM}
  /\ p.NumOfBytes \in 1 .. MaxLoad(p.MemType)
  /\ p.FileLen \in 1 .. OS_MAX_PATH_LEN - 1
  /\ DestInRange(p)

\* The address of a symbol, and the last byte of a load there, do not wrap.
LEMMA SymbolNoWrap ==
  ASSUME NEW p, CommandOK(p), p.SymLen > 0
  PROVE  /\ ResolvedAddr(p) \in Nat
         /\ ResolvedAddr(p) >= RamBase
         /\ ResolvedAddr(p) + p.NumOfBytes <= AddrSpace
<1>. DEFINE a == p.SymLen * SymbolStride
            top == OS_MAX_API_NAME * SymbolStride
<1>1. /\ p.NumOfBytes \in Nat \ {0} /\ p.NumOfBytes <= MaxLoad(p.MemType)
      /\ p.SymLen \in 1 .. OS_MAX_API_NAME - 1 /\ p.Offset = 0
  BY MaxLoadPositive, BuilderAssumption DEF CommandOK, DestInRange
<1>2. a \in Nat /\ top \in Nat /\ a <= top
  <2>1. \A m, n, k \in Nat : m <= n => m * k \in Nat /\ n * k \in Nat /\ m * k <= n * k
    BY SMT
  <2>2. p.SymLen \in Nat /\ p.SymLen <= OS_MAX_API_NAME
    BY <1>1, BuilderAssumption
  <2>. QED BY <2>1, <2>2, BuilderAssumption
<1>. HIDE DEF a
<1>3. MaxLoad(p.MemType) \in {MaxLoadRam, MaxLoadEeprom}
  BY DEF MaxLoad
<1>4. RamBase + top + MaxLoad(p.MemType) <= AddrSpace
  BY <1>3, NoWrapAssumption DEF top
<1>. HIDE DEF top
<1>5. RamBase + a + p.NumOfBytes <= AddrSpace
  <2>1. \A b, x, t, n, m, w \in Nat : x <= t /\ n <= m /\ b + t + m <= w => b + x + n <= w
    OBVIOUS
  <2>2. RamBase \in Nat /\ MaxLoad(p.MemType) \in Nat /\ AddrSpace \in Nat /\ p.NumOfBytes \in Nat
    BY <1>1, MaxLoadPositive, BuilderAssumption, MapAssumption
  <2>. QED BY <1>1, <1>2, <1>4, <2>1, <2>2
<1>6. ResolvedAddr(p) = (RamBase + a + p.Offset) % AddrSpace
  BY Zenon DEF ResolvedAddr, a
<1>7. RamBase + a + p.Offset = RamBase + a /\ RamBase + a \in 0 .. AddrSpace - 1
  BY <1>1, <1>2, <1>5, BuilderAssumption, MapAssumption
<1>8. (RamBase + a) % AddrSpace = RamBase + a
  BY <1>7, ModSmall, MapAssumption
<1>9. ResolvedAddr(p) = RamBase + a
  BY <1>6, <1>7, <1>8, Zenon
<1>10. RamBase + a \in Nat /\ RamBase + a >= RamBase
  BY <1>2, BuilderAssumption
<1>. QED BY <1>5, <1>9, <1>10, Zenon

\* No sum the simulator makes on such a command wraps.
LEMMA NoWrap ==
  ASSUME NEW p, CommandOK(p)
  PROVE  /\ ResolvedAddr(p) \in Nat
         /\ ResolvedAddr(p) + p.NumOfBytes <= AddrSpace
<1>1. CASE p.SymLen > 0
  BY <1>1, SymbolNoWrap
<1>2. CASE p.SymLen = 0
  <2>1. p.NumOfBytes \in Nat \ {0} /\ p.NumOfBytes <= MaxLoad(p.MemType)
    BY MaxLoadPositive DEF CommandOK
  <2>2. /\ ResolvedAddr(p) = p.Offset
        /\ p.Offset \in BaseAddr(p.MemType) .. (BaseAddr(p.MemType) + OffsetSpan - 1)
    BY <1>2, BuilderAssumption DEF CommandOK, DestInRange, ResolvedAddr
  <2>3. /\ BaseAddr(p.MemType) \in Nat
        /\ BaseAddr(p.MemType) + OffsetSpan + MaxLoad(p.MemType) <= AddrSpace
    BY BuilderAssumption, NoWrapAssumption DEF BaseAddr, MaxLoad
  <2>4. MaxLoad(p.MemType) \in Nat /\ OffsetSpan \in Nat /\ AddrSpace \in Nat
    BY MaxLoadPositive, BuilderAssumption, MapAssumption
  <2>5. \A b, m, o, n, k, top \in Nat :
          o \in b .. (b + k - 1) /\ n <= m /\ b + k + m <= top => o \in Nat /\ o + n <= top
    OBVIOUS
  <2>6. p.Offset \in Nat /\ p.NumOfBytes \in Nat
    BY <2>1, <2>2, <2>3, <2>4
  <2>7. p.Offset \in Nat /\ p.Offset + p.NumOfBytes <= AddrSpace
    BY <2>1, <2>2, <2>3, <2>4, <2>5, <2>6
  <2>. QED BY <2>2, <2>7
<1>3. p.SymLen > 0 \/ p.SymLen = 0
  BY BuilderAssumption DEF CommandOK, DestInRange
<1>. QED BY <1>1, <1>2, <1>3

\* On such a command the code's address check is exactly containment in one writable
\* region of the type.
LEMMA AddressCheckExact ==
  ASSUME NEW p, CommandOK(p)
  PROVE  CFS_IsValidMemoryAddress(ResolvedAddr(p), p.MemType, p.NumOfBytes)
           <=> RegionHolds(ResolvedAddr(p), p.MemType, p.NumOfBytes)
<1>. DEFINE addr == ResolvedAddr(p)
            size == p.NumOfBytes
<1>. HIDE DEF addr, size
<1>1. size \in Nat \ {0}
  BY MaxLoadPositive DEF CommandOK, size
<1>2. addr \in Nat /\ addr + size <= AddrSpace
  BY NoWrap DEF addr, size
<1>3. LastAddr(addr, size) = addr + size - 1
  <2>1. addr + size - 1 \in 0 .. AddrSpace - 1
    BY <1>1, <1>2, MapAssumption
  <2>. QED BY <2>1, ModSmall, MapAssumption DEF LastAddr
<1>4. ASSUME NEW i \in DOMAIN Regions, Regions[i].mem_type = p.MemType
      PROVE  /\ Regions[i].writable
             /\ (addr >= Regions[i].start_addr /\ LastAddr(addr, size) <= Regions[i].end_addr)
                  <=> (Regions[i].start_addr <= addr /\ addr + size <= Regions[i].end_addr + 1)
  <2>1. Regions[i] \in CFS_MemoryRegion_t
    BY MapAssumption
  <2>2. Regions[i].start_addr \in Nat /\ Regions[i].end_addr \in Nat
    BY <2>1 DEF CFS_MemoryRegion_t
  <2>3. Regions[i].writable
    BY <1>4, MapAssumption DEF CommandOK
  <2>. QED BY <1>1, <1>2, <1>3, <2>2, <2>3
<1>5. CFS_IsValidMemoryAddress(addr, p.MemType, size) <=> RegionHolds(addr, p.MemType, size)
  BY <1>4 DEF CFS_IsValidMemoryAddress, RegionHolds
<1>. QED BY <1>5 DEF addr, size

\* The simulator accepts such a command exactly when it fits and is aligned, and refuses
\* it for no other reason.
LEMMA SimulationExact ==
  ASSUME NEW p, CommandOK(p)
  PROVE  LET s == MM_LoadMemFromFileCmd_Simulation(p)
         IN  /\ s \in {CFE_SUCCESS, CFS_MM_ERROR_INVALID_ADDR, CFS_MM_ERROR_ALIGNMENT}
             /\ s = CFE_SUCCESS
                  <=> /\ RegionHolds(ResolvedAddr(p), p.MemType, p.NumOfBytes)
                      /\ ResolvedAddr(p) % MemoryAlignment = 0
<1>1. p.MemType \in {MM_RAM, MM_EEPROM}
      /\ ~(p.NumOfBytes = 0 \/ p.NumOfBytes > MaxLoad(p.MemType)) /\ p.FileLen # 0
  BY MaxLoadPositive, BuilderAssumption DEF CommandOK
<1>2. MM_LoadMemFromFileCmd_Simulation(p) =
        IF ~CFS_IsValidMemoryAddress(ResolvedAddr(p), p.MemType, p.NumOfBytes)
          THEN CFS_MM_ERROR_INVALID_ADDR
        ELSE IF ResolvedAddr(p) % MemoryAlignment # 0 THEN CFS_MM_ERROR_ALIGNMENT
        ELSE CFE_SUCCESS
  BY <1>1 DEF MM_LoadMemFromFileCmd_Simulation
<1>. QED
  BY <1>2, AddressCheckExact
     DEF CFE_SUCCESS, CFS_MM_ERROR_INVALID_ADDR, CFS_MM_ERROR_ALIGNMENT

-----------------------------------------------------------------------------
(* The inductive invariant. *)

\* The memset leaves a packet.
LEMMA ZeroedIsPacket == ZeroedPacket \in Packet
BY DEF ZeroedPacket, Packet

\* What an input the engine may choose holds.
LEMMA InputFields ==
  ASSUME NEW d \in Inputs
  PROVE  /\ d.size \in Nat /\ d.numbytes \in Nat /\ d.crc \in Nat /\ d.offset \in Nat
         /\ d.memtype \in Nat /\ d.choice \in Nat /\ d.symbol \in Nat /\ d.path \in Nat
<1>1. d \in Input
  BY BuilderAssumption
<1>. QED BY <1>1 DEF Input, Byte

\* The invariant holds before the first call.
LEMMA InitIInv == Init => IInv
<1>. SUFFICES ASSUME Init PROVE IInv
  OBVIOUS
<1>1. TypeOK
  BY ZeroedIsPacket DEF Init, TypeOK
<1>2. CursorTracksFields /\ NoLeak /\ FieldsSoFar /\ LongEnough /\ JudgedPacket
  BY DEF Init, CursorTracksFields, NoLeak, FieldsSoFar, LongEnough, JudgedPacket, BuilderStages
<1>3. OnlyPlacementErrors
  BY DEF Init, OnlyPlacementErrors
<1>. QED BY <1>1, <1>2, <1>3 DEF IInv

\* A return to the engine keeps the invariant, given that it leaves nothing allocated.
LEMMA ReturnIInv ==
  ASSUME IInv, Return, live' = 0, status' = status
  PROVE  IInv'
<1>1. TypeOK'
  BY ZeroedIsPacket DEF IInv, TypeOK, Return
<1>2. (CursorTracksFields /\ NoLeak /\ FieldsSoFar /\ LongEnough /\ JudgedPacket)'
  BY DEF Return, CursorTracksFields, NoLeak, FieldsSoFar, LongEnough, JudgedPacket, BuilderStages
<1>3. OnlyPlacementErrors'
  BY DEF IInv, OnlyPlacementErrors
<1>. QED BY <1>1, <1>2, <1>3 DEF IInv

\* The steps that set no field of the packet.
LEMMA EntryIInv ==
  ASSUME IInv,
         LLVMFuzzerTestOneInput \/ EntryTooShort \/ EntryLongEnough \/ ReturnNull \/ FreePacket
  PROVE  IInv'
<1>1. CASE LLVMFuzzerTestOneInput
  <2>1. TypeOK'
    BY <1>1 DEF IInv, TypeOK, LLVMFuzzerTestOneInput
  <2>2. (CursorTracksFields /\ NoLeak /\ FieldsSoFar /\ LongEnough /\ JudgedPacket)'
    BY <1>1 DEF IInv, LLVMFuzzerTestOneInput, CursorTracksFields, NoLeak, FieldsSoFar,
                LongEnough, JudgedPacket, BuilderStages
  <2>3. OnlyPlacementErrors'
    BY <1>1 DEF IInv, OnlyPlacementErrors, LLVMFuzzerTestOneInput
  <2>. QED BY <2>1, <2>2, <2>3 DEF IInv
<1>2. CASE EntryTooShort
  <2>1. live = 0
    BY <1>2 DEF IInv, NoLeak, EntryTooShort, BuilderStages
  <2>. QED BY <1>2, <2>1, ReturnIInv DEF EntryTooShort
<1>3. CASE EntryLongEnough
  <2>0. data \in Inputs /\ data.size >= PacketSize
    <3>1. data \in Inputs /\ ~TooShort(data.size)
      BY <1>3 DEF IInv, LongEnough, EntryLongEnough
    <3>. QED BY <3>1, InputFields, BuilderAssumption DEF TooShort
  <2>1. TypeOK'
    BY <1>3 DEF IInv, TypeOK, EntryLongEnough
  <2>2. (CursorTracksFields /\ NoLeak /\ FieldsSoFar /\ LongEnough /\ JudgedPacket)'
    BY <1>3, <2>0 DEF IInv, EntryLongEnough, CursorTracksFields, NoLeak, FieldsSoFar,
                LongEnough, JudgedPacket, BuilderStages
  <2>3. OnlyPlacementErrors'
    BY <1>3 DEF IInv, OnlyPlacementErrors, EntryLongEnough
  <2>. QED BY <2>1, <2>2, <2>3 DEF IInv
<1>4. CASE ReturnNull
  <2>1. live = 0
    BY <1>4 DEF IInv, NoLeak, ReturnNull, BuilderStages
  <2>. QED BY <1>4, <2>1, ReturnIInv DEF ReturnNull
<1>5. CASE FreePacket
  <2>1. live = 1
    BY <1>5 DEF IInv, NoLeak, FreePacket
  <2>2. live' = 0
    BY <1>5, <2>1 DEF FreePacket
  <2>. QED BY <1>5, <2>2, ReturnIInv DEF FreePacket
<1>. QED BY <1>1, <1>2, <1>3, <1>4, <1>5

\* Judging the packet of a complete command finds nothing wrong but its placement.
LEMMA SimulateIInv ==
  ASSUME IInv, Simulate
  PROVE  IInv'
<1>1. CommandOK(packet)
  BY DEF IInv, TypeOK, FieldsSoFar, Simulate, CommandOK
<1>2. status' \in {CFE_SUCCESS, CFS_MM_ERROR_INVALID_ADDR, CFS_MM_ERROR_ALIGNMENT}
  BY <1>1, SimulationExact DEF Simulate
<1>3. TypeOK'
  BY <1>2 DEF IInv, TypeOK, Simulate
<1>4. CursorTracksFields' /\ NoLeak'
  BY DEF IInv, Simulate, CursorTracksFields, NoLeak, BuilderStages, BytesBefore, AddressBytes
<1>5. FieldsSoFar' /\ LongEnough' /\ JudgedPacket'
  BY DEF IInv, Simulate, FieldsSoFar, LongEnough, JudgedPacket, BuilderStages
<1>6. OnlyPlacementErrors'
  BY <1>2 DEF OnlyPlacementErrors
<1>. QED BY <1>3, <1>4, <1>5, <1>6 DEF IInv

\* A step of the builder sets one field to a legal value and moves the cursor past the
\* bytes it came from.
LEMMA ConstructIInv ==
  ASSUME IInv, Construct
  PROVE  IInv'
<1>0. UNCHANGED status /\ OnlyPlacementErrors'
  BY DEF IInv, OnlyPlacementErrors, Construct
<1>1. ASSUME pc \in BuilderStages
      PROVE  /\ data \in Inputs /\ data.size \in Nat /\ data.size >= 19
             /\ live = 1 /\ packet \in Packet
  <2>1. data \in Inputs /\ data.size >= PacketSize
    BY <1>1 DEF IInv, LongEnough
  <2>2. data.size >= 19
    BY <2>1, InputFields, LayoutAssumption, BuilderAssumption
  <2>. QED BY <1>1, <2>1, <2>2, InputFields DEF IInv, NoLeak, TypeOK
<1>2. CASE CheckSize
  <2>1. TypeOK'
    BY <1>0, <1>2 DEF IInv, TypeOK, CheckSize, BuilderStages
  <2>2. (CursorTracksFields /\ NoLeak /\ FieldsSoFar /\ LongEnough /\ JudgedPacket)'
    BY <1>0, <1>2 DEF IInv, CheckSize, CursorTracksFields, NoLeak, FieldsSoFar, LongEnough, JudgedPacket, BuilderStages, TooShort
  <2>. QED BY <1>0, <2>1, <2>2 DEF IInv
<1>3. CASE MallocFails
  <2>1. TypeOK'
    BY <1>0, <1>3 DEF IInv, TypeOK, MallocFails, BuilderStages
  <2>2. (CursorTracksFields /\ NoLeak /\ FieldsSoFar /\ LongEnough /\ JudgedPacket)'
    BY <1>0, <1>3 DEF IInv, MallocFails, CursorTracksFields, NoLeak, FieldsSoFar, LongEnough, JudgedPacket, BuilderStages
  <2>. QED BY <1>0, <2>1, <2>2 DEF IInv
<1>4. CASE Malloc
  <2>0. live = 0
    BY <1>4 DEF IInv, NoLeak, Malloc, BuilderStages
  <2>1. TypeOK'
    BY <1>0, <1>4, <2>0, ZeroedIsPacket DEF IInv, TypeOK, Malloc, BuilderStages
  <2>2. (CursorTracksFields /\ NoLeak /\ FieldsSoFar /\ LongEnough /\ JudgedPacket)'
    BY <1>0, <1>4, <2>0 DEF IInv, Malloc, CursorTracksFields, NoLeak, FieldsSoFar, LongEnough, JudgedPacket, BuilderStages
  <2>. QED BY <1>0, <2>1, <2>2 DEF IInv
<1>5. CASE SetHeader
  <2>1. pc = "header" /\ pc \in BuilderStages
    BY <1>5 DEF SetHeader, BuilderStages
  <2>2. packet' \in Packet /\ HeaderComplete(packet')
    BY <1>1, <1>5, <2>1, HeaderSetters DEF SetHeader, HeaderComplete
  <2>3. cursor' = 0 /\ data' = data
    BY <1>5 DEF SetHeader
  <2>7. TypeOK'
    BY <1>0, <1>1, <1>5, <2>1, <2>2, <2>3 DEF IInv, TypeOK, SetHeader, BuilderStages
  <2>8. CursorTracksFields' /\ NoLeak' /\ LongEnough' /\ JudgedPacket'
    BY <1>1, <1>5, <2>1, <2>3 DEF IInv, SetHeader, CursorTracksFields, NoLeak, LongEnough,
                JudgedPacket, BuilderStages, BytesBefore, AddressBytes
  <2>9. FieldsSoFar'
    BY <1>1, <1>5, <2>1, <2>2 DEF IInv, SetHeader, FieldsSoFar, BuilderStages, HeaderComplete
  <2>. QED BY <1>0, <2>7, <2>8, <2>9 DEF IInv
<1>6. CASE SetMemType
  <2>1. pc = "MemType" /\ pc \in BuilderStages
    BY <1>6 DEF SetMemType, BuilderStages
  <2>0. cursor = 0
    BY <2>1 DEF IInv, CursorTracksFields, BuilderStages, BytesBefore
  <2>3. cursor' = 1 /\ data' = data /\ Available(1)
    BY <1>1, <1>6, <2>0, <2>1 DEF SetMemType, Available
  <2>4. MemTypeOf(data.memtype) \in {MM_RAM, MM_EEPROM}
    BY <1>1, <2>1, InputFields, MemTypeLegal
  <2>5. packet' = [packet EXCEPT !.MemType = MemTypeOf(data.memtype)]
    BY <1>6, <2>3 DEF SetMemType
  <2>2. packet' \in Packet /\ packet'.MemType \in {MM_RAM, MM_EEPROM}
        /\ packet'.StreamId = packet.StreamId /\ packet'.Length = packet.Length
        /\ packet'.Sequence = packet.Sequence
    BY <1>1, <2>1, <2>4, <2>5 DEF Packet, MM_RAM, MM_EEPROM
  <2>7. TypeOK'
    BY <1>0, <1>1, <1>6, <2>1, <2>2, <2>3 DEF IInv, TypeOK, SetMemType, BuilderStages
  <2>8. CursorTracksFields' /\ NoLeak' /\ LongEnough' /\ JudgedPacket'
    BY <1>1, <1>6, <2>1, <2>3 DEF IInv, SetMemType, CursorTracksFields, NoLeak, LongEnough,
                JudgedPacket, BuilderStages, BytesBefore, AddressBytes
  <2>9. FieldsSoFar'
    BY <1>1, <1>6, <2>1, <2>2 DEF IInv, SetMemType, FieldsSoFar, BuilderStages, HeaderComplete
  <2>. QED BY <1>0, <2>7, <2>8, <2>9 DEF IInv
<1>7. CASE SetNumOfBytes
  <2>1. pc = "NumOfBytes" /\ pc \in BuilderStages
    BY <1>7 DEF SetNumOfBytes, BuilderStages
  <2>0. cursor = 1
    BY <2>1 DEF IInv, CursorTracksFields, BuilderStages, BytesBefore
  <2>3. cursor' = 5 /\ data' = data /\ Available(4)
    BY <1>1, <1>7, <2>0, <2>1 DEF SetNumOfBytes, Available
  <2>4. /\ NumOfBytesOf(data.numbytes, packet.MemType) \in 1 .. MaxLoad(packet.MemType)
        /\ MaxLoad(packet.MemType) \in Nat
    BY <1>1, <2>1, InputFields, NumOfBytesLegal, MaxLoadPositive
  <2>5. packet' = [packet EXCEPT !.NumOfBytes = NumOfBytesOf(data.numbytes, packet.MemType)]
    BY <1>7, <2>3 DEF SetNumOfBytes
  <2>2. packet' \in Packet /\ packet'.MemType = packet.MemType
        /\ packet'.NumOfBytes \in 1 .. MaxLoad(packet.MemType)
        /\ packet'.StreamId = packet.StreamId /\ packet'.Length = packet.Length
        /\ packet'.Sequence = packet.Sequence
    BY <1>1, <2>1, <2>4, <2>5 DEF Packet
  <2>7. TypeOK'
    BY <1>0, <1>1, <1>7, <2>1, <2>2, <2>3 DEF IInv, TypeOK, SetNumOfBytes, BuilderStages
  <2>8. CursorTracksFields' /\ NoLeak' /\ LongEnough' /\ JudgedPacket'
    BY <1>1, <1>7, <2>1, <2>3 DEF IInv, SetNumOfBytes, CursorTracksFields, NoLeak, LongEnough,
                JudgedPacket, BuilderStages, BytesBefore, AddressBytes
  <2>9. FieldsSoFar'
    BY <1>1, <1>7, <2>1, <2>2 DEF IInv, SetNumOfBytes, FieldsSoFar, BuilderStages, HeaderComplete
  <2>. QED BY <1>0, <2>7, <2>8, <2>9 DEF IInv
<1>8. CASE SetCRC
  <2>1. pc = "CRC" /\ pc \in BuilderStages
    BY <1>8 DEF SetCRC, BuilderStages
  <2>0. cursor = 5
    BY <2>1 DEF IInv, CursorTracksFields, BuilderStages, BytesBefore
  <2>3. cursor' = 9 /\ data' = data /\ Available(4)
    BY <1>1, <1>8, <2>0, <2>1 DEF SetCRC, Available
  <2>5. packet' = [packet EXCEPT !.CRC = data.crc]
    BY <1>8, <2>3 DEF SetCRC
  <2>2. packet' \in Packet /\ packet'.MemType = packet.MemType
        /\ packet'.NumOfBytes = packet.NumOfBytes
        /\ packet'.StreamId = packet.StreamId /\ packet'.Length = packet.Length
        /\ packet'.Sequence = packet.Sequence
    BY <1>1, <2>1, <2>5, InputFields DEF Packet
  <2>7. TypeOK'
    BY <1>0, <1>1, <1>8, <2>1, <2>2, <2>3 DEF IInv, TypeOK, SetCRC, BuilderStages
  <2>8. CursorTracksFields' /\ NoLeak' /\ LongEnough' /\ JudgedPacket'
    BY <1>1, <1>8, <2>1, <2>3 DEF IInv, SetCRC, CursorTracksFields, NoLeak, LongEnough,
                JudgedPacket, BuilderStages, BytesBefore, AddressBytes
  <2>9. FieldsSoFar'
    BY <1>1, <1>8, <2>1, <2>2 DEF IInv, SetCRC, FieldsSoFar, BuilderStages, HeaderComplete
  <2>. QED BY <1>0, <2>7, <2>8, <2>9 DEF IInv
<1>9. CASE SetDest
  <2>1. pc = "DestSymAddress" /\ pc \in BuilderStages
    BY <1>9 DEF SetDest, BuilderStages
  <2>0. cursor = 9 /\ BaseAddr(packet.MemType) \in Nat
    BY <2>1, BuilderAssumption DEF IInv, CursorTracksFields, BuilderStages, BytesBefore, BaseAddr
  <2>4. data' = data /\ Available(1) /\ Available(2) /\ Available(9) /\ (SymbolDest \/ OffsetDest)
    BY <1>1, <1>9, <2>0, <2>1 DEF SetDest, Available
  <2>3. cursor' = 9 + AddressBytes /\ data' = data /\ AddressBytes \in {2, 9}
    <3>1. CASE SymbolDest
      <4>1. data.choice % 2 = 0 /\ cursor' = cursor + 2
        BY <2>4, <3>1 DEF SymbolDest
      <4>. QED BY <2>0, <2>4, <4>1 DEF AddressBytes
    <3>2. CASE OffsetDest
      <4>1. data.choice % 2 = 1 /\ cursor' = cursor + 9
        BY <2>4, <3>2 DEF OffsetDest
      <4>. QED BY <2>0, <2>4, <4>1 DEF AddressBytes
    <3>. QED BY <2>4, <3>1, <3>2
  <2>5. \E len \in Nat, off \in Nat :
           /\ packet' = [packet EXCEPT !.SymLen = len, !.Offset = off]
           /\ \/ len \in 1 .. OS_MAX_API_NAME - 1 /\ off = 0
              \/ len = 0 /\ off \in BaseAddr(packet.MemType)
                                      .. (BaseAddr(packet.MemType) + OffsetSpan - 1)
    <3>1. CASE SymbolDest
      <4>1. SymbolCopyLen(data.symbol) \in 1 .. OS_MAX_API_NAME - 1
        BY <1>1, <2>1, InputFields, SymbolFits
      <4>2. packet' = [packet EXCEPT !.SymLen = SymbolCopyLen(data.symbol), !.Offset = 0]
        BY <2>4, <3>1 DEF SymbolDest
      <4>3. SymbolCopyLen(data.symbol) \in Nat
        BY <4>1
      <4>. QED BY <4>1, <4>2, <4>3
    <3>2. CASE OffsetDest
      <4>1. data.offset % OffsetSpan \in 0 .. OffsetSpan - 1
        BY <1>1, <2>1, InputFields, ModRange, BuilderAssumption
      <4>2. packet' = [packet EXCEPT !.SymLen = 0,
                         !.Offset = BaseAddr(packet.MemType) + (data.offset % OffsetSpan)]
        BY <2>4, <3>2 DEF OffsetDest
      <4>3. /\ BaseAddr(packet.MemType) + (data.offset % OffsetSpan) \in Nat
            /\ BaseAddr(packet.MemType) + (data.offset % OffsetSpan)
                 \in BaseAddr(packet.MemType) .. (BaseAddr(packet.MemType) + OffsetSpan - 1)
        BY <2>0, <4>1, BuilderAssumption
      <4>. QED BY <4>2, <4>3
    <3>. QED BY <2>4, <3>1, <3>2
  <2>2. packet' \in Packet /\ packet'.MemType = packet.MemType /\ DestInRange(packet')
        /\ packet'.NumOfBytes = packet.NumOfBytes
        /\ packet'.StreamId = packet.StreamId /\ packet'.Length = packet.Length
        /\ packet'.Sequence = packet.Sequence
    BY <1>1, <2>1, <2>5 DEF Packet, DestInRange
  <2>7. TypeOK'
    BY <1>0, <1>1, <1>9, <2>1, <2>2, <2>3 DEF IInv, TypeOK, SetDest, BuilderStages
  <2>8. CursorTracksFields' /\ NoLeak' /\ LongEnough' /\ JudgedPacket'
    BY <1>1, <1>9, <2>1, <2>3 DEF IInv, SetDest, CursorTracksFields, NoLeak, LongEnough,
                JudgedPacket, BuilderStages, BytesBefore, AddressBytes
  <2>9. FieldsSoFar'
    BY <1>1, <1>9, <2>1, <2>2 DEF IInv, SetDest, FieldsSoFar, BuilderStages, HeaderComplete
  <2>. QED BY <1>0, <2>7, <2>8, <2>9 DEF IInv
<1>10. CASE SetFileName
  <2>1. pc = "FileName" /\ pc \in BuilderStages
    BY <1>10 DEF SetFileName, BuilderStages
  <2>0. cursor = 9 + AddressBytes /\ AddressBytes \in {2, 9}
    BY <2>1 DEF IInv, CursorTracksFields, BuilderStages, BytesBefore, AddressBytes
  <2>3. cursor' = 10 + AddressBytes /\ data' = data /\ Available(1) /\ AddressBytes \in {2, 9}
    BY <1>1, <1>10, <2>0, <2>1 DEF SetFileName, Available
  <2>4. FileLenOf(data.path) \in 1 .. OS_MAX_PATH_LEN - 1 /\ FileLenOf(data.path) \in Nat
    BY <1>1, <2>1, InputFields, FileNameFits
  <2>5. packet' = [packet EXCEPT !.FileLen = FileLenOf(data.path)]
    BY <1>10, <2>3 DEF SetFileName
  <2>2. packet' \in Packet /\ packet'.MemType = packet.MemType
        /\ packet'.FileLen \in 1 .. OS_MAX_PATH_LEN - 1
        /\ packet'.SymLen = packet.SymLen /\ packet'.Offset = packet.Offset
        /\ packet'.NumOfBytes = packet.NumOfBytes
        /\ packet'.StreamId = packet.StreamId /\ packet'.Length = packet.Length
        /\ packet'.Sequence = packet.Sequence
    BY <1>1, <2>1, <2>4, <2>5 DEF Packet
  <2>7. TypeOK'
    BY <1>0, <1>1, <1>10, <2>1, <2>2, <2>3 DEF IInv, TypeOK, SetFileName, BuilderStages
  <2>8. CursorTracksFields' /\ NoLeak' /\ LongEnough' /\ JudgedPacket'
    BY <1>1, <1>10, <2>1, <2>3 DEF IInv, SetFileName, CursorTracksFields, NoLeak, LongEnough,
                JudgedPacket, BuilderStages, BytesBefore, AddressBytes
  <2>9. FieldsSoFar'
    BY <1>1, <1>10, <2>1, <2>2 DEF IInv, SetFileName, FieldsSoFar, BuilderStages, HeaderComplete, DestInRange
  <2>. QED BY <1>0, <2>7, <2>8, <2>9 DEF IInv
<1>. QED
  BY <1>2, <1>3, <1>4, <1>5, <1>6, <1>7, <1>8, <1>9, <1>10 DEF Construct, MM_Load_ConstructPacket

-----------------------------------------------------------------------------
(* The theorems. *)

\* Every step of the engine and of the harness keeps the invariant.
LEMMA NextIInv == IInv /\ [Next]_vars => IInv'
<1>. SUFFICES ASSUME IInv, [Next]_vars PROVE IInv'
  OBVIOUS
<1>1. CASE LLVMFuzzerTestOneInput \/ EntryTooShort \/ EntryLongEnough \/ ReturnNull \/ FreePacket
  BY <1>1, EntryIInv
<1>2. CASE Construct
  BY <1>2, ConstructIInv
<1>3. CASE Simulate
  BY <1>3, SimulateIInv
<1>4. CASE UNCHANGED vars
  <2>. USE <1>4 DEF IInv, vars
  <2>1. TypeOK' /\ NoLeak' /\ LongEnough' /\ OnlyPlacementErrors'
    BY DEF TypeOK, NoLeak, LongEnough, OnlyPlacementErrors
  <2>2. CursorTracksFields'
    BY DEF CursorTracksFields, BytesBefore, AddressBytes
  <2>3. FieldsSoFar' /\ JudgedPacket'
    BY DEF FieldsSoFar, JudgedPacket
  <2>. QED BY <2>1, <2>2, <2>3
<1>. QED BY <1>1, <1>2, <1>3, <1>4 DEF Next, Harness

\* In every state of every execution the fields set so far are legal, the input is long
\* enough for the rest, and the status is that of the packet in hand.
THEOREM Invariance == Spec => []IInv
<1>. QED BY InitIInv, NextIInv, PTL DEF Spec

\* No packet is freed twice or outlives its call, whichever way the call ends.
THEOREM TypeAndHeap == Spec => [](TypeOK /\ NoLeak)
<1>1. IInv => TypeOK /\ NoLeak
  BY DEF IInv
<1>. QED BY <1>1, Invariance, PTL

\* In particular live stays in 0..1, and the status is one the simulator can return.
THEOREM TypesOK == Spec => []TypeOK
<1>. QED BY TypeAndHeap, PTL

\* The builder never reads past the end of its input and never falls back on a default.
THEOREM CursorSafe == Spec => []CursorTracksFields
<1>1. IInv => CursorTracksFields
  BY DEF IInv
<1>. QED BY <1>1, Invariance, PTL

\* The simulator only ever sees complete commands that its own limits permit.
THEOREM CommandsWellFormed == Spec => []CommandWellFormed
<1>1. IInv => CommandWellFormed
  BY DEF IInv, FieldsSoFar, CommandWellFormed, BuilderStages
<1>. QED BY <1>1, Invariance, PTL

\* No input makes the simulator refuse a command for its type, size or file name.
THEOREM PlacementOnly == Spec => []OnlyPlacementErrors
<1>1. IInv => OnlyPlacementErrors
  BY DEF IInv
<1>. QED BY <1>1, Invariance, PTL

\* For every memory map and every base address that keep clear of the wrap at the top of
\* the address space, an accepted load lies in one writable region of its type.
THEOREM AcceptedLoadsFit == Spec => []AcceptedLoadFits
<1>1. IInv => AcceptedLoadFits
  <2>. SUFFICES ASSUME IInv, pc = "free", status = CFE_SUCCESS
                PROVE  /\ RegionHolds(ResolvedAddr(packet), packet.MemType, packet.NumOfBytes)
                       /\ ResolvedAddr(packet) % MemoryAlignment = 0
    BY DEF AcceptedLoadFits
  <2>1. CommandOK(packet)
    BY DEF IInv, TypeOK, FieldsSoFar, CommandOK
  <2>2. status = MM_LoadMemFromFileCmd_Simulation(packet)
    BY DEF IInv, JudgedPacket
  <2>. QED BY <2>1, <2>2, SimulationExact
<1>. QED BY <1>1, Invariance, PTL

-----------------------------------------------------------------------------
(* Refinement of the load contract. *)

\* A complete command is a request the contract admits.
LEMMA RequestWellFormed ==
  ASSUME NEW p, CommandOK(p)
  PROVE  LC!WellFormed(Request(p))
BY DEF CommandOK, LC!WellFormed, LC!Limit, LC!MM_RAM, LC!MM_EEPROM, Request, MaxLoad,
       MM_RAM, MM_EEPROM

\* Judging a complete packet is the contract's decision on it.
LEMMA SimulateDecides ==
  ASSUME IInv, Simulate
  PROVE  LC!Decide
<1>1. pc = "built" /\ pc' = "free" /\ Pending = {Request(packet)} /\ Pending' = {}
  BY DEF Simulate, Pending
<1>2. CommandOK(packet)
  BY DEF IInv, TypeOK, FieldsSoFar, Simulate, CommandOK
<1>3. LC!Acceptable(Request(packet)) <=> status' = CFE_SUCCESS
  BY <1>2, SimulationExact
     DEF Simulate, LC!Acceptable, Request, LC!RegionHolds, RegionHolds
<1>4. status' \in {CFE_SUCCESS, CFS_MM_ERROR_INVALID_ADDR, CFS_MM_ERROR_ALIGNMENT}
  BY <1>2, SimulationExact DEF Simulate
<1>5. Verdict' = IF status' = CFE_SUCCESS THEN "accepted" ELSE "rejected"
  BY <1>4 DEF Verdict, NoStatus, CFE_SUCCESS, CFS_MM_ERROR_INVALID_ADDR,
              CFS_MM_ERROR_ALIGNMENT
<1>. QED BY <1>1, <1>3, <1>5 DEF LC!Decide

\* Every step of the harness is a step of the contract or leaves it where it was: the last
\* field completes a request, the simulator decides it.
LEMMA StepRefines ==
  IInv /\ IInv' /\ [Next]_vars => [LC!ContractNext]_(LC!contractVars)
<1>. SUFFICES ASSUME IInv, IInv', [Next]_vars
              PROVE  LC!ContractNext \/ UNCHANGED <<Pending, Verdict>>
  BY DEF LC!contractVars
<1>1. CASE Simulate
  BY <1>1, SimulateDecides DEF LC!ContractNext
<1>2. CASE SetFileName /\ UNCHANGED status
  <2>1. pc' = "built" /\ Pending = {} /\ Pending' = {Request(packet')}
    BY <1>2 DEF SetFileName, Pending, Request, ResolvedAddr
  <2>2. LC!WellFormed(Request(packet'))
    <3>1. CommandOK(packet')
      BY <2>1 DEF IInv, TypeOK, FieldsSoFar, CommandOK
    <3>. QED BY <3>1, RequestWellFormed
  <2>. QED BY <1>2, <2>1, <2>2 DEF LC!ContractNext, LC!Submit, Verdict
<1>3. CASE Construct /\ ~SetFileName
  BY <1>3 DEF Construct, MM_Load_ConstructPacket, Pending, Verdict, CheckSize, MallocFails,
              Malloc, SetHeader, SetMemType, SetNumOfBytes, SetCRC, SetDest
<1>4. CASE LLVMFuzzerTestOneInput \/ EntryTooShort \/ EntryLongEnough \/ ReturnNull \/ FreePacket
  BY <1>4 DEF LLVMFuzzerTestOneInput, EntryTooShort, EntryLongEnough, ReturnNull, FreePacket,
              Return, Pending, Verdict
<1>5. CASE UNCHANGED vars
  BY <1>5 DEF vars, Pending, Verdict, Request, ResolvedAddr
<1>. QED BY <1>1, <1>2, <1>3, <1>4, <1>5 DEF Next, Harness, Construct

\* Every execution of the harness is one of the load contract.
THEOREM HarnessImplementsContract == Spec => ImplementsContract
<1>1. Init => LC!ContractInit
  BY DEF Init, LC!ContractInit, Pending, Verdict, NoStatus, CFE_SUCCESS
<1>. QED BY <1>1, StepRefines, Invariance, PTL DEF Spec, ImplementsContract, LC!Contract

-----------------------------------------------------------------------------
(* What the memory map of a target must look like. *)

\* On a map whose EEPROM lies below the base of RAM no symbol names an EEPROM load.
THEOREM SymbolsAreRam ==
  ASSUME \A i \in DOMAIN Regions :
           Regions[i].mem_type = MM_EEPROM => Regions[i].end_addr < RamBase
  PROVE  Spec => []SymbolLoadsAreRam
<1>1. IInv => SymbolLoadsAreRam
  <2>. SUFFICES ASSUME IInv, pc = "free", status = CFE_SUCCESS, packet.SymLen > 0,
                       packet.MemType # MM_RAM
                PROVE  FALSE
    BY DEF SymbolLoadsAreRam
  <2>1. CommandOK(packet) /\ packet.MemType = MM_EEPROM
    BY DEF IInv, TypeOK, FieldsSoFar, CommandOK
  <2>2. RegionHolds(ResolvedAddr(packet), MM_EEPROM, packet.NumOfBytes)
    <3>1. status = MM_LoadMemFromFileCmd_Simulation(packet)
      BY DEF IInv, JudgedPacket
    <3>. QED BY <2>1, <3>1, SimulationExact
  <2>3. ResolvedAddr(packet) >= RamBase
    BY <2>1, SymbolNoWrap
  <2>4. packet.NumOfBytes \in Nat \ {0} /\ ResolvedAddr(packet) \in Nat /\ RamBase \in Nat
    BY <2>1, NoWrap, MaxLoadPositive, BuilderAssumption DEF CommandOK
  <2>5. PICK i \in DOMAIN Regions :
          /\ Regions[i].mem_type = MM_EEPROM
          /\ ResolvedAddr(packet) + packet.NumOfBytes <= Regions[i].end_addr + 1
    BY <2>2 DEF RegionHolds
  <2>6. Regions[i].end_addr \in Nat /\ Regions[i].end_addr < RamBase
    <3>1. Regions[i] \in CFS_MemoryRegion_t
      BY MapAssumption
    <3>. QED BY <2>5, <3>1 DEF CFS_MemoryRegion_t
  <2>. QED BY <2>3, <2>4, <2>5, <2>6
<1>. QED BY <1>1, Invariance, PTL

\* Where both base addresses are aligned and inside a region of their own type, a byte
\* sent to a base is accepted.
THEOREM BasesAreLoadable ==
  ASSUME \A t \in {MM_RAM, MM_EEPROM} :
           RegionHolds(BaseAddr(t), t, 1) /\ BaseAddr(t) % MemoryAlignment = 0
  PROVE  Spec => []BaseIsLoadable
<1>1. IInv => BaseIsLoadable
  <2>. SUFFICES ASSUME IInv, pc = "free", packet.SymLen = 0,
                       packet.Offset = BaseAddr(packet.MemType), packet.NumOfBytes = 1
                PROVE  status = CFE_SUCCESS
    BY DEF BaseIsLoadable
  <2>1. CommandOK(packet) /\ packet.MemType \in {MM_RAM, MM_EEPROM}
    BY DEF IInv, TypeOK, FieldsSoFar, CommandOK
  <2>2. ResolvedAddr(packet) = BaseAddr(packet.MemType)
    BY DEF ResolvedAddr
  <2>3. status = MM_LoadMemFromFileCmd_Simulation(packet)
    BY DEF IInv, JudgedPacket
  <2>. QED BY <2>1, <2>2, <2>3, SimulationExact
<1>. QED BY <1>1, Invariance, PTL

-----------------------------------------------------------------------------
(* How long a call is. *)

\* The steps a call still has before it, at most.
StepsLeft ==
  CASE pc = "entry" -> 11 [] pc = "size" -> 10 [] pc = "malloc" -> 9 [] pc = "header" -> 8
    [] pc = "MemType" -> 7 [] pc = "NumOfBytes" -> 6 [] pc = "CRC" -> 5
    [] pc = "DestSymAddress" -> 4 [] pc = "FileName" -> 3 [] pc = "built" -> 2
    [] pc \in {"null", "free"} -> 1 [] OTHER -> 0

\* Each step of a call brings it nearer to its return, whatever the input and whether or not
\* malloc fails: no call takes more than eleven, and the return it ends in is never put off.
\* It is the part of CallReturns that is not about fairness.
THEOREM CallsCountDown ==
  Spec => [][pc # "idle" => StepsLeft \in Nat /\ StepsLeft' < StepsLeft]_vars
<1>1. [Next]_vars => [pc # "idle" => StepsLeft \in Nat /\ StepsLeft' < StepsLeft]_vars
  <2>. SUFFICES ASSUME Next, pc # "idle" PROVE StepsLeft \in Nat /\ StepsLeft' < StepsLeft
    OBVIOUS
  <2>1. CASE EntryTooShort \/ EntryLongEnough
    BY <2>1 DEF EntryTooShort, EntryLongEnough, Return, StepsLeft
  <2>2. CASE Construct
    BY <2>2 DEF Construct, MM_Load_ConstructPacket, CheckSize, MallocFails, Malloc, SetHeader,
                SetMemType, SetNumOfBytes, SetCRC, SetDest, SetFileName, StepsLeft
  <2>3. CASE ReturnNull \/ Simulate \/ FreePacket
    BY <2>3 DEF ReturnNull, Simulate, FreePacket, Return, StepsLeft
  <2>. QED BY <2>1, <2>2, <2>3 DEF Next, Harness, LLVMFuzzerTestOneInput
<1>. QED BY <1>1, PTL DEF Spec

=============================================================================
