-------------------------- MODULE MemoryChecks_proofs --------------------------
(***************************************************************************)
(* Proofs about the checks of utils.c, for every table of regions that     *)
(* satisfies TableAssumption, every address space and every argument.  The *)
(* state adds little: the verdict recorded is that of the address resolved *)
(* last.  What a verdict says of the table is the rest.                    *)
(***************************************************************************)
EXTENDS MemoryChecks, TLAPS

CheckInv ==
  /\ resolved \in Nat
  /\ last.op = "region" =>
       /\ last.size \in Nat /\ last.write \in BOOLEAN
       /\ last.ret = CFS_ValidateMemoryRegion(resolved, last.size, last.mem_type, last.write)
  /\ last.op = "align" =>
       /\ last.data_size \in {0, MM_MEM8, MM_MEM16, MM_MEM32}
       /\ last.ret = MM_IsValidAlignment(resolved, last.data_size)

\* Every name and offset resolves to an address.
LEMMA ResolvedAddress ==
  ASSUME NEW len \in NameLens, NEW offset \in Offsets
  PROVE  MM_ResolveSymAddr(len, offset) \in Nat
<1>1. len \in Nat /\ offset \in Nat /\ AddrSpace \in Nat \ {0} /\ LookupBase \in Nat /\ LookupStride \in Nat
  BY ChecksAssumption, MapAssumption, HelpersAssumption
<1>2. len * LookupStride \in Nat
  BY <1>1
<1>3. \A n \in Nat : n % AddrSpace \in Nat
  BY <1>1
<1>4. ((LookupBase + len * LookupStride) % AddrSpace) + offset \in Nat
  BY <1>1, <1>2, <1>3
<1> QED
  BY <1>1, <1>3, <1>4 DEF MM_ResolveSymAddr, OS_SymbolLookup

LEMMA CheckInvariance == ChecksSpec => []CheckInv
<1>1. ChecksInit => CheckInv
  BY DEF ChecksInit, CheckInv, NoCall
<1>2. ASSUME CheckInv, [ChecksNext]_checkVars PROVE CheckInv'
  <2>1. CASE Resolve
    BY <2>1, ResolvedAddress DEF Resolve, CheckInv, NoCall
  <2>2. CASE Validate
    <3>1. PICK size \in Sizes, mem_type \in MemTypes, write \in BOOLEAN :
            /\ last' = [op |-> "region", size |-> size, mem_type |-> mem_type, write |-> write,
                        ret |-> CFS_ValidateMemoryRegion(resolved, size, mem_type, write)]
            /\ resolved' = resolved
      BY <2>2 DEF Validate
    <3>2. size \in Nat
      BY ChecksAssumption
    <3>3. /\ last'.op = "region" /\ last'.size = size /\ last'.mem_type = mem_type
          /\ last'.write = write
          /\ last'.ret = CFS_ValidateMemoryRegion(resolved, size, mem_type, write)
      BY <3>1
    <3>4. CFS_ValidateMemoryRegion(resolved, size, mem_type, write)' =
            CFS_ValidateMemoryRegion(resolved, size, mem_type, write)
      BY <3>1 DEF CFS_ValidateMemoryRegion, CFS_IsValidMemoryAddress, DeniesWrite, LastAddr
    <3> QED
      BY <1>2, <3>1, <3>2, <3>3 DEF CheckInv
  <2>3. CASE Align
    BY <1>2, <2>3 DEF Align, CheckInv
  <2>4. CASE UNCHANGED checkVars
    BY <1>2, <2>4 DEF checkVars, CheckInv
  <2> QED
    BY <1>2, <2>1, <2>2, <2>3, <2>4 DEF ChecksNext
<1> QED
  BY <1>1, <1>2, PTL DEF ChecksSpec

\* The region table, index by index.
LEMMA TableFacts ==
  ASSUME NEW i \in DOMAIN Regions
  PROVE  /\ i \in Nat
         /\ Regions[i].start_addr \in Nat /\ Regions[i].end_addr \in Nat
         /\ Regions[i].end_addr < AddrSpace /\ Regions[i].writable \in BOOLEAN
         /\ Regions[i].mem_type \in Nat
<1>1. Regions \in Seq(CFS_MemoryRegion_t)
  BY MapAssumption
<1>2. Regions[i] \in CFS_MemoryRegion_t /\ i \in Nat
  BY <1>1
<1> QED
  BY <1>2, MapAssumption DEF CFS_MemoryRegion_t

\* The comparison of the source, on bytes that do not run past the top of the address space.
LEMMA MatchIsInside ==
  ASSUME NEW addr \in Nat, NEW size \in Nat \ {0}, addr + size <= AddrSpace,
         NEW mem_type, NEW i \in DOMAIN Regions
  PROVE  (/\ Regions[i].mem_type = mem_type
          /\ addr >= Regions[i].start_addr
          /\ LastAddr(addr, size) <= Regions[i].end_addr) <=> Inside(i, addr, size, mem_type)
<1>1. AddrSpace \in Nat \ {0} /\ addr + size - 1 \in 0 .. AddrSpace - 1
  BY MapAssumption
<1>2. LastAddr(addr, size) = addr + size - 1
  BY <1>1 DEF LastAddr
<1> QED
  BY <1>2, TableFacts DEF Inside

\* Two regions of a type do not hold the same byte.
LEMMA HoldingUnique ==
  ASSUME NEW addr \in Nat, NEW size \in Nat \ {0}, NEW mem_type,
         NEW i \in Containing(addr, size, mem_type), NEW j \in Containing(addr, size, mem_type)
  PROVE  i = j
<1>1. i \in DOMAIN Regions /\ j \in DOMAIN Regions
  BY DEF Containing
<1>2. /\ Regions[i].start_addr \in Nat /\ Regions[i].end_addr \in Nat
      /\ Regions[j].start_addr \in Nat /\ Regions[j].end_addr \in Nat
  BY <1>1, TableFacts
<1> QED
  BY <1>1, <1>2, TableAssumption DEF Containing, Inside

\* The verdict of CFS_ValidateMemoryRegion, in terms of the regions that hold the bytes.
LEMMA VerdictOnRegions ==
  ASSUME NEW addr \in Nat, NEW size \in Nat \ {0}, addr + size <= AddrSpace,
         NEW mem_type, NEW write \in BOOLEAN,
         NEW ret, ret = CFS_ValidateMemoryRegion(addr, size, mem_type, write)
  PROVE  LET Holding == Containing(addr, size, mem_type)
         IN  /\ ret = CFS_MM_ERROR_INVALID_ADDR <=> Holding = {}
             /\ ret = CFS_MM_ERROR_PERMISSION <=> write /\ \E i \in Holding : ~Regions[i].writable
<1> DEFINE Holding == Containing(addr, size, mem_type)
<1>1. CFS_IsValidMemoryAddress(addr, mem_type, size) <=> Holding # {}
  BY MatchIsInside DEF CFS_IsValidMemoryAddress, Containing
<1>2. DeniesWrite(addr, size, mem_type) <=> \E i \in Holding : ~Regions[i].writable
  <2>1. {i \in DOMAIN Regions :
           /\ Regions[i].mem_type = mem_type
           /\ addr >= Regions[i].start_addr
           /\ LastAddr(addr, size) <= Regions[i].end_addr} = Holding
    BY MatchIsInside DEF Containing
  <2>2. \A i, j \in Holding : i = j /\ i <= j
    <3>1. \A i \in Holding : i \in Nat
      BY TableFacts DEF Containing
    <3>2. \A i, j \in Holding : i = j
      BY HoldingUnique
    <3> HIDE DEF Holding
    <3> QED
      BY <3>1, <3>2
  <2> HIDE DEF Holding
  <2> QED
    BY <2>1, <2>2 DEF DeniesWrite
<1> HIDE DEF Holding
<1>3. /\ ret = CFS_MM_ERROR_INVALID_ADDR <=> Holding = {}
      /\ ret = CFS_MM_ERROR_PERMISSION <=> write /\ \E i \in Holding : ~Regions[i].writable
  BY <1>1, <1>2
  DEF CFS_ValidateMemoryRegion, CFS_MM_ERROR_INVALID_ADDR, CFS_MM_ERROR_PERMISSION, CFE_SUCCESS
<1> QED
  BY <1>3 DEF Holding

\* Bytes short of the top of the address space get an exact verdict, whatever was resolved.
THEOREM RegionVerdictsExact == ChecksSpec => []RegionVerdictExact
<1>1. CheckInv => RegionVerdictExact
  BY VerdictOnRegions DEF CheckInv, RegionVerdictExact
<1> QED
  BY <1>1, CheckInvariance, PTL

\* Behind the type check no write is denied, and only RAM and EEPROM are let in.
THEOREM TypeCheckGuardsWrites == ChecksSpec => []VerifiedTypesWritable
<1>1. ASSUME CheckInv, last.op = "region", MM_VerifyMemType(last.mem_type) = CFE_SUCCESS
      PROVE  /\ last.ret # CFS_MM_ERROR_PERMISSION
             /\ last.ret = CFE_SUCCESS => last.mem_type \in {MM_RAM, MM_EEPROM}
  <2>1. last.mem_type \in {MM_RAM, MM_EEPROM, MM_MEM8, MM_MEM16, MM_MEM32}
    BY <1>1 DEF MM_VerifyMemType, CFE_SUCCESS, CFS_MM_ERROR_INVALID_MEMTYPE
  <2>2. \A i \in DOMAIN Regions :
          Regions[i].mem_type = last.mem_type =>
            Regions[i].writable /\ last.mem_type \in {MM_RAM, MM_EEPROM}
    BY <2>1, MapAssumption, TableAssumption
  <2>3. ~DeniesWrite(resolved, last.size, last.mem_type)
    BY <2>2 DEF DeniesWrite
  <2>4. CFS_IsValidMemoryAddress(resolved, last.mem_type, last.size) =>
          last.mem_type \in {MM_RAM, MM_EEPROM}
    BY <2>2 DEF CFS_IsValidMemoryAddress
  <2> QED
    BY <1>1, <2>3, <2>4
    DEF CheckInv, CFS_ValidateMemoryRegion, CFS_MM_ERROR_INVALID_ADDR, CFS_MM_ERROR_PERMISSION,
        CFE_SUCCESS
<1>2. CheckInv => VerifiedTypesWritable
  BY <1>1 DEF VerifiedTypesWritable
<1> QED
  BY <1>2, CheckInvariance, PTL

\* An aligned datum lies in the region its first byte is in.
THEOREM AlignedDataFit == ChecksSpec => []AlignedDatumFits
<1>1. ASSUME CheckInv, last.op = "align", last.ret
      PROVE  /\ MM_VerifyDataSize(last.data_size) = CFE_SUCCESS
             /\ \A t \in MemTypes :
                  Containing(resolved, 1, t) = Containing(resolved, last.data_size \div 8, t)
  <2> DEFINE bytes == last.data_size \div 8
  <2>1. /\ last.data_size \in {MM_MEM8, MM_MEM16, MM_MEM32} /\ resolved \in Nat
        /\ MM_IsValidAlignment(resolved, last.data_size)
    BY <1>1 DEF CheckInv, MM_IsValidAlignment
  <2>2. \/ bytes = 1
        \/ bytes = 2 /\ resolved % 2 = 0
        \/ bytes = 4 /\ resolved % 4 = 0
    BY <2>1 DEF MM_IsValidAlignment, MM_MEM8, MM_MEM16, MM_MEM32
  <2> HIDE DEF bytes
  <2>3. ASSUME NEW i \in DOMAIN Regions, NEW t
        PROVE  Inside(i, resolved, 1, t) <=> Inside(i, resolved, bytes, t)
    <3>1. /\ Regions[i].start_addr \in Nat /\ Regions[i].end_addr \in Nat
          /\ (Regions[i].end_addr + 1) % 4 = 0
      BY TableFacts, TableAssumption
    <3>2. resolved + 1 <= Regions[i].end_addr + 1 <=> resolved + bytes <= Regions[i].end_addr + 1
      <4> DEFINE e == Regions[i].end_addr + 1
      <4>1. e \in Nat /\ e % 4 = 0
        BY <3>1
      <4> HIDE DEF e
      <4>2. resolved + 1 <= e <=> resolved + bytes <= e
        BY <2>1, <2>2, <4>1
      <4> QED
        BY <4>2 DEF e
    <3> QED
      BY <3>2 DEF Inside
  <2>4. \A t : Containing(resolved, 1, t) = Containing(resolved, bytes, t)
    BY <2>3 DEF Containing
  <2> QED
    BY <2>1, <2>4 DEF MM_VerifyDataSize, bytes
<1>2. CheckInv => AlignedDatumFits
  BY <1>1 DEF AlignedDatumFits
<1> QED
  BY <1>2, CheckInvariance, PTL

=============================================================================
