------------------------ MODULE HelperAgreement_proofs ------------------------
(***************************************************************************)
(* Proofs that the harness agrees with the helpers it does not call, for   *)
(* every input set and memory map, from what is known of a judged packet:  *)
(* its header is complete, its fields are legal and its status is the      *)
(* simulator's verdict on it.  On which targets the verdicts agree is in   *)
(* the hypotheses of the first theorem.                                    *)
(***************************************************************************)
EXTENDS HelperAgreement, FuzzTarget_proofs

\* A legal command names a file the helpers let through.
LEMMA NameAccepted ==
  ASSUME NEW p, p.FileLen \in 1 .. OS_MAX_PATH_LEN - 1, data.path \in Nat,
         \A i \in DOMAIN PathLens : PathLens[i] < OS_MAX_PATH_LEN
  PROVE  H!MM_VerifyFileName(NameOf(p)) = CFE_SUCCESS
<1> DEFINE entry == (data.path % Len(PathLens)) + 1
<1>1. entry \in DOMAIN PathLens /\ entry # 0
  <2>1. Len(PathLens) \in Nat \ {0} /\ DOMAIN PathLens = 1 .. Len(PathLens)
    BY BuilderAssumption
  <2>2. data.path % Len(PathLens) \in 0 .. Len(PathLens) - 1
    BY <2>1, ModRange
  <2> QED
    BY <2>1, <2>2
<1> HIDE DEF entry
<1>2. NameOf(p) = [len |-> p.FileLen, up |-> FALSE, dir |-> entry]
  BY <1>1 DEF NameOf, entry
<1>3. NameOf(p).len \in 1 .. OS_MAX_PATH_LEN - 1 /\ ~NameOf(p).up /\ NameOf(p).dir # 0
  BY <1>1, <1>2
<1> DEFINE n == NameOf(p)
<1>4. n.len # -1 /\ ~(n.len = 0 \/ n.len >= OS_MAX_PATH_LEN) /\ ~(n.up \/ n.dir = 0)
  BY <1>3, BuilderAssumption
<1>5. n.len \in 1 .. OS_MAX_PATH_LEN - 1
  BY <1>3
<1> HIDE DEF n
<1>6. H!MM_VerifyFileName(n) = H!CFE_SUCCESS
  BY <1>4, <1>5 DEF H!MM_VerifyFileName
<1> QED
  BY <1>6 DEF n, H!CFE_SUCCESS, CFE_SUCCESS

\* Where the symbols of the mock start at the RAM base, both resolve alike.
LEMMA SameAddress ==
  ASSUME LookupBase = RamBase, NEW p, CommandOK(p)
  PROVE  H!MM_ResolveSymAddr(p.SymLen, p.Offset) = ResolvedAddr(p)
<1>1. CASE p.SymLen > 0
  <2> DEFINE sym == (RamBase + p.SymLen * SymbolStride) % AddrSpace
  <2>1. p.Offset = 0 /\ RamBase + p.SymLen * SymbolStride \in Nat
    <3>1. p.Offset = 0 /\ p.SymLen \in Nat
      BY <1>1, BuilderAssumption DEF CommandOK, DestInRange
    <3>2. p.SymLen * SymbolStride \in Nat
      BY <3>1, BuilderAssumption
    <3> QED
      BY <3>1, <3>2, BuilderAssumption
  <2>2. sym \in 0 .. AddrSpace - 1
    BY <2>1, ModRange, MapAssumption
  <2>3. ResolvedAddr(p) = sym
    <3>1. \A k \in Nat : k + 0 = k
      OBVIOUS
    <3> QED
      BY <1>1, <2>1, <3>1 DEF ResolvedAddr
  <2>4. H!MM_ResolveSymAddr(p.SymLen, p.Offset) = (sym + 0) % AddrSpace
    BY <1>1, <2>1 DEF H!MM_ResolveSymAddr, H!OS_SymbolLookup
  <2> HIDE DEF sym
  <2>5. (sym + 0) % AddrSpace = sym
    BY <2>2, ModSmall, MapAssumption
  <2> QED
    BY <2>3, <2>4, <2>5
<1>2. CASE ~(p.SymLen > 0)
  BY <1>2 DEF H!MM_ResolveSymAddr, ResolvedAddr
<1> QED
  BY <1>1, <1>2

\* The checks of the helpers on a legal command are those of the simulator.
LEMMA SameVerdict ==
  ASSUME LookupBase = RamBase, MemoryAlignment = 4,
         \A i \in DOMAIN PathLens : PathLens[i] < OS_MAX_PATH_LEN,
         data.path \in Nat, NEW p, CommandOK(p)
  PROVE  HelperVerdict(p) = MM_LoadMemFromFileCmd_Simulation(p)
<1> DEFINE addr == ResolvedAddr(p)
<1>1. H!MM_ResolveSymAddr(p.SymLen, p.Offset) = addr
  BY SameAddress
<1> HIDE DEF addr
<1>2. H!MM_VerifyMemType(p.MemType) = CFE_SUCCESS
  BY DEF CommandOK, H!MM_VerifyMemType, H!MM_RAM, H!MM_EEPROM, H!CFE_SUCCESS, MM_RAM,
         MM_EEPROM, CFE_SUCCESS
<1>3. p.NumOfBytes \in 1 .. H!CFS_GetMaxDataSize(p.MemType)
  <2>1. H!CFS_GetMaxDataSize(p.MemType) = MaxLoad(p.MemType)
    BY DEF CommandOK, H!CFS_GetMaxDataSize, H!MM_RAM, H!MM_EEPROM, MM_RAM, MM_EEPROM, MaxLoad
  <2> QED
    BY <2>1 DEF CommandOK
<1>4. H!MM_VerifyFileName(NameOf(p)) = CFE_SUCCESS
  BY NameAccepted DEF CommandOK
<1>5. H!CFS_ValidateMemoryRegion(addr, p.NumOfBytes, p.MemType, TRUE) = CFE_SUCCESS
        <=> CFS_IsValidMemoryAddress(addr, p.MemType, p.NumOfBytes)
  <2>1. \A i \in DOMAIN Regions : Regions[i].mem_type = p.MemType => Regions[i].writable
    BY MapAssumption DEF CommandOK
  <2>2. ~H!DeniesWrite(addr, p.NumOfBytes, p.MemType)
    BY <2>1 DEF H!DeniesWrite
  <2>3. H!CFS_IsValidMemoryAddress(addr, p.MemType, p.NumOfBytes)
          <=> CFS_IsValidMemoryAddress(addr, p.MemType, p.NumOfBytes)
    BY DEF H!CFS_IsValidMemoryAddress, CFS_IsValidMemoryAddress, H!LastAddr, LastAddr
  <2> QED
    BY <2>2, <2>3
    DEF H!CFS_ValidateMemoryRegion, H!CFE_SUCCESS, H!CFS_MM_ERROR_INVALID_ADDR, CFE_SUCCESS
<1>6. H!MM_IsValidAlignment(addr, H!MM_MEM32) <=> addr % 4 = 0
  BY DEF H!MM_IsValidAlignment, H!MM_MEM8, H!MM_MEM16, H!MM_MEM32
<1>7. p.MemType \in {MM_RAM, MM_EEPROM}
      /\ ~(p.NumOfBytes = 0 \/ p.NumOfBytes > MaxLoad(p.MemType)) /\ p.FileLen # 0
  BY MaxLoadPositive, BuilderAssumption DEF CommandOK
<1>8. MM_LoadMemFromFileCmd_Simulation(p) =
        IF ~CFS_IsValidMemoryAddress(addr, p.MemType, p.NumOfBytes)
          THEN CFS_MM_ERROR_INVALID_ADDR
        ELSE IF addr % 4 # 0 THEN CFS_MM_ERROR_ALIGNMENT
        ELSE CFE_SUCCESS
  BY <1>7 DEF MM_LoadMemFromFileCmd_Simulation, addr
<1> QED
  BY <1>1, <1>2, <1>3, <1>4, <1>5, <1>6, <1>8 DEF HelperVerdict

\* On a target whose RAM base is the mock's and whose alignment is a double word's, with
\* directories that fit their buffer, the helpers would judge every command as the
\* simulator does.
THEOREM HelpersAlwaysAgree ==
  ASSUME LookupBase = RamBase, MemoryAlignment = 4,
         \A i \in DOMAIN PathLens : PathLens[i] < OS_MAX_PATH_LEN
  PROVE  Spec => []HelpersAgree
<1>1. IInv => HelpersAgree
  <2> SUFFICES ASSUME IInv, pc = "free" PROVE HelperVerdict(packet) = status
    BY DEF HelpersAgree
  <2>1. CommandOK(packet) /\ status = MM_LoadMemFromFileCmd_Simulation(packet)
    BY DEF IInv, TypeOK, FieldsSoFar, CommandOK, JudgedPacket
  <2>2. data.path \in Nat
    <3>1. data \in Input
      BY BuilderAssumption DEF IInv, LongEnough
    <3> QED
      BY <3>1 DEF Input, Byte
  <2> QED
    BY <2>1, <2>2, SameVerdict
<1> QED
  BY <1>1, Invariance, PTL

\* The same command, up to its header.
SameCommand(p, q) ==
  /\ p \in Packet /\ q \in Packet
  /\ q.MemType = p.MemType /\ q.NumOfBytes = p.NumOfBytes /\ q.CRC = p.CRC
  /\ q.SymLen = p.SymLen /\ q.Offset = p.Offset /\ q.FileLen = p.FileLen

\* The header a builder leaves is CFS_InitPacketHeader's, whatever was in its place.
LEMMA SameHeader ==
  ASSUME NEW p, HeaderComplete(p), NEW used, SameCommand(p, used)
  PROVE  CFS_InitPacketHeader(used, CFE_SB_ValueToMsgId(MM_CMD_MID), PacketSize,
                              MM_LOAD_MEM_FROM_FILE_CC) = p
<1> DEFINE zeroed == [used EXCEPT !.StreamId = 0, !.Sequence = 0, !.Length = 0]
           a == CFE_MSG_SetMsgId(zeroed, CFE_SB_ValueToMsgId(MM_CMD_MID))
           b == CFE_MSG_SetSize(a, PacketSize)
           c == CFE_MSG_SetSequenceCount(b, 0)
           d == CFE_MSG_SetSegmentationFlag(c, 3)
           Made(id, n, w) ==
             [StreamId |-> id, Sequence |-> w, Length |-> n, MemType |-> p.MemType,
              NumOfBytes |-> p.NumOfBytes, CRC |-> p.CRC, SymLen |-> p.SymLen,
              Offset |-> p.Offset, FileLen |-> p.FileLen]
<1>1. zeroed = Made(0, 0, 0)
  <2> DEFINE u == [used EXCEPT !.StreamId = 0]
             v == [u EXCEPT !.Sequence = 0]
  <2>1. SameCommand(p, u) /\ u.StreamId = 0
    BY DEF SameCommand, Packet
  <2>2. zeroed = [v EXCEPT !.Length = 0]
    OBVIOUS
  <2> HIDE DEF u
  <2>3. SameCommand(p, v) /\ v.StreamId = 0 /\ v.Sequence = 0
    BY <2>1 DEF SameCommand, Packet
  <2> HIDE DEF v, zeroed
  <2>4. zeroed = [StreamId |-> 0, Sequence |-> 0, Length |-> 0, MemType |-> v.MemType,
                  NumOfBytes |-> v.NumOfBytes, CRC |-> v.CRC, SymLen |-> v.SymLen,
                  Offset |-> v.Offset, FileLen |-> v.FileLen]
    BY <2>2, <2>3 DEF SameCommand, Packet
  <2> QED
    BY <2>3, <2>4 DEF SameCommand
<1> HIDE DEF zeroed
<1>2. a = Made(MM_CMD_MID % 65536, 0, 0)
  BY <1>1 DEF CFE_MSG_SetMsgId, CFE_SB_ValueToMsgId
<1> HIDE DEF a
<1>3. b = Made(MM_CMD_MID % 65536, PacketSize % 65536, 0)
  BY <1>2 DEF CFE_MSG_SetSize
<1> HIDE DEF b
<1>4. c = Made(MM_CMD_MID % 65536, PacketSize % 65536, 0)
  <2>1. 0 % 65536 = 0
    BY SMT
  <2> QED
    BY <1>3, <2>1 DEF CFE_MSG_SetSequenceCount
<1> HIDE DEF c
<1>5. d = Made(MM_CMD_MID % 65536, PacketSize % 65536, 3 * 16384)
  <2>1. (0 % 16384) + ((3 % 4) * 16384) = 3 * 16384
    BY SMT
  <2>2. c.Sequence = 0
    BY <1>4
  <2>3. d = [c EXCEPT !.Sequence = 3 * 16384]
    BY <2>1, <2>2 DEF CFE_MSG_SetSegmentationFlag
  <2> QED
    BY <1>4, <2>3
<1> HIDE DEF d
<1>6. p = Made(p.StreamId, p.Length, p.Sequence)
  BY DEF SameCommand, Packet
<1> HIDE DEF Made
<1>7. d = p
  BY <1>5, <1>6 DEF HeaderComplete
<1> QED
  BY <1>7 DEF CFS_InitPacketHeader, CFE_MSG_SetFcnCode, zeroed, a, b, c, d

\* The two ways to make a header agree, and the message id can be read back from it.
THEOREM HeadersAlwaysAgree == Spec => []HeadersAgree
<1>1. IInv => HeadersAgree
  <2> SUFFICES ASSUME IInv, pc = "free" PROVE HeadersAgree
    BY DEF HeadersAgree
  <2>1. packet \in Packet /\ HeaderComplete(packet)
    BY DEF IInv, TypeOK, FieldsSoFar, BuilderStages
  <2>2. CFE_MSG_GetMsgId(packet) = CFE_SB_ValueToMsgId(MM_CMD_MID)
    <3>1. 6280 % 65536 = 6280
      BY SMT
    <3> QED
      BY <2>1, <3>1 DEF HeaderComplete, CFE_MSG_GetMsgId, CFE_SB_ValueToMsgId, MM_CMD_MID
  <2>3. CFE_MSG_GetFcnCode(packet) = MM_NOOP_CC
    BY DEF CFE_MSG_GetFcnCode, MM_NOOP_CC
  <2> QED
    <3> DEFINE used == [packet EXCEPT !.StreamId = 65535, !.Sequence = 65535, !.Length = 65535]
    <3>1. SameCommand(packet, used)
      <4> DEFINE u == [packet EXCEPT !.StreamId = 65535]
                 v == [u EXCEPT !.Sequence = 65535]
      <4>1. SameCommand(packet, u)
        BY <2>1 DEF SameCommand, Packet
      <4>2. used = [v EXCEPT !.Length = 65535]
        OBVIOUS
      <4> HIDE DEF u
      <4>3. SameCommand(packet, v)
        BY <4>1 DEF SameCommand, Packet
      <4> HIDE DEF v, used
      <4> QED
        BY <4>2, <4>3 DEF SameCommand, Packet
    <3> HIDE DEF used
    <3>2. CFS_InitPacketHeader(used, CFE_SB_ValueToMsgId(MM_CMD_MID), PacketSize,
                               MM_LOAD_MEM_FROM_FILE_CC) = packet
      BY <2>1, <3>1, SameHeader
    <3> QED
      BY <2>2, <2>3, <3>1, <3>2 DEF HeadersAgree, used
<1> QED
  BY <1>1, Invariance, PTL

=============================================================================
