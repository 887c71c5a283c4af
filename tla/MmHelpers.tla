------------------------------ MODULE MmHelpers ------------------------------
(***************************************************************************)
(* The verification helpers of utils.c, as functions of their arguments.   *)
(* The harness links them and calls none: its simulator makes the same     *)
(* checks with code of its own.                                            *)
(*                                                                         *)
(* A file name is what the checks see of it: its strlen (-1 for NULL),     *)
(* whether it has a "../" or "..\" in it, and the entry of cfs_valid_paths *)
(* it begins with, 0 for none.  No entry begins with another.              *)
(***************************************************************************)
EXTENDS CfsMemory

CONSTANTS
  LookupBase,       \* 0x20000000 of the mock's symbol table, the same on every target
  LookupStride,     \* 0x1000
  MaxLoadRam,       \* MM_MAX_LOAD_FILE_DATA_RAM
  MaxLoadEeprom,    \* MM_MAX_LOAD_FILE_DATA_EEPROM
  OS_MAX_PATH_LEN

ASSUME HelpersAssumption ==
  /\ LookupBase \in Nat /\ LookupStride \in Nat
  /\ MaxLoadRam \in Nat /\ MaxLoadEeprom \in Nat /\ OS_MAX_PATH_LEN \in Nat

CFS_MM_ERROR_PERMISSION == -10
OS_INVALID_POINTER      == -2
MM_MEM8  == 8
MM_MEM16 == 16
MM_MEM32 == 32

\* A type check that lets the flash of the region table through.
VerifyMemType_WithFlash(mem_type) ==
  IF mem_type \in {MM_RAM, MM_EEPROM, 3, MM_MEM8, MM_MEM16, MM_MEM32}
    THEN CFE_SUCCESS ELSE CFS_MM_ERROR_INVALID_MEMTYPE

MM_VerifyMemType(mem_type) ==
  IF mem_type \in {MM_RAM, MM_EEPROM, MM_MEM8, MM_MEM16, MM_MEM32}
    THEN CFE_SUCCESS ELSE CFS_MM_ERROR_INVALID_MEMTYPE

MM_VerifyDataSize(data_size) ==
  IF data_size \in {MM_MEM8, MM_MEM16, MM_MEM32} THEN CFE_SUCCESS ELSE CFS_MM_ERROR_INVALID_SIZE

MM_VerifyFileName(name) ==
  CASE name.len = -1 -> OS_INVALID_POINTER
    [] name.len = 0 \/ name.len >= OS_MAX_PATH_LEN -> CFS_MM_ERROR_INVALID_FILE
    [] name.len \in 1 .. OS_MAX_PATH_LEN - 1 ->
         IF name.up \/ name.dir = 0 THEN CFS_MM_ERROR_INVALID_FILE ELSE CFE_SUCCESS

CFS_GetMaxDataSize(mem_type) ==
  CASE mem_type = MM_RAM    -> MaxLoadRam
    [] mem_type = MM_EEPROM -> MaxLoadEeprom
    [] OTHER                -> 1024

\* The mock knows every name.
OS_SymbolLookup(len) == (LookupBase + len * LookupStride) % AddrSpace

\* An offset that a name makes superfluous.
ResolveSymAddr_NameOnly(len, offset) == IF len > 0 THEN OS_SymbolLookup(len) ELSE 0

MM_ResolveSymAddr(len, offset) ==
  IF len > 0 THEN (OS_SymbolLookup(len) + offset) % AddrSpace ELSE offset

\* The first region the bytes are found in is not writable.
DeniesWrite(addr, size, mem_type) ==
  LET Matches == {i \in DOMAIN Regions :
                    /\ Regions[i].mem_type = mem_type
                    /\ addr >= Regions[i].start_addr
                    /\ LastAddr(addr, size) <= Regions[i].end_addr}
  IN  \E i \in Matches : ~Regions[i].writable /\ \A j \in Matches : i <= j

CFS_ValidateMemoryRegion(addr, size, mem_type, write_access) ==
  IF ~CFS_IsValidMemoryAddress(addr, mem_type, size) THEN CFS_MM_ERROR_INVALID_ADDR
  ELSE IF write_access /\ DeniesWrite(addr, size, mem_type) THEN CFS_MM_ERROR_PERMISSION
  ELSE CFE_SUCCESS

\* A double word aligned like a word.
MM_IsValidAlignment_Word(addr, data_size) ==
  \/ data_size = MM_MEM8
  \/ data_size \in {MM_MEM16, MM_MEM32} /\ addr % 2 = 0

MM_IsValidAlignment(addr, data_size) ==
  \/ data_size = MM_MEM8
  \/ data_size = MM_MEM16 /\ addr % 2 = 0
  \/ data_size = MM_MEM32 /\ addr % 4 = 0

=============================================================================
