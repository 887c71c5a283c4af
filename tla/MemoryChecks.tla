----------------------------- MODULE MemoryChecks -----------------------------
(***************************************************************************)
(* The checks a memory command is meant to go through, on the address it   *)
(* resolved last: any call may come after any other, as nothing in the     *)
(* repository fixes their order.                                           *)
(***************************************************************************)
EXTENDS MmHelpers

CONSTANTS
  NameLens,         \* strlen of the symbol names asked for, 0 for none
  Offsets,          \* the offsets that go with them
  Sizes,            \* the numbers of bytes asked for, values of uint32_t
  MemTypes          \* the memory types asked for

VARIABLES
  resolved,   \* *ResolvedAddr
  last        \* the call made last, its arguments and what it returned

checkVars == <<resolved, last>>

ASSUME ChecksAssumption ==
  /\ NameLens \cup Offsets \cup Sizes \cup MemTypes \subseteq Nat
  /\ \A n \in Sizes \cup Offsets : n < AddrSpace

\* Of the table: the regions of one type lie apart, begin and end with a double word, and
\* none has a type that is a data size.
ASSUME TableAssumption ==
  \A i \in DOMAIN Regions :
    /\ Regions[i].start_addr <= Regions[i].end_addr
    /\ Regions[i].start_addr % 4 = 0 /\ (Regions[i].end_addr + 1) % 4 = 0
    /\ Regions[i].mem_type \notin {MM_MEM8, MM_MEM16, MM_MEM32}
    /\ \A j \in DOMAIN Regions \ {i} :
         Regions[j].mem_type = Regions[i].mem_type =>
           Regions[i].end_addr < Regions[j].start_addr \/ Regions[j].end_addr < Regions[i].start_addr

NoCall == [op |-> "none", ret |-> CFE_SUCCESS]

ChecksInit == resolved = 0 /\ last = NoCall

Resolve ==
  \E len \in NameLens, offset \in Offsets :
    /\ resolved' = MM_ResolveSymAddr(len, offset)
    /\ last' = NoCall

Validate ==
  \E size \in Sizes, mem_type \in MemTypes, write \in BOOLEAN :
    /\ last' = [op |-> "region", size |-> size, mem_type |-> mem_type, write |-> write,
                ret |-> CFS_ValidateMemoryRegion(resolved, size, mem_type, write)]
    /\ UNCHANGED resolved

Align ==
  \E data_size \in {0, MM_MEM8, MM_MEM16, MM_MEM32} :
    /\ last' = [op |-> "align", data_size |-> data_size,
                ret |-> MM_IsValidAlignment(resolved, data_size)]
    /\ UNCHANGED resolved

ChecksNext == Resolve \/ Validate \/ Align

ChecksSpec == ChecksInit /\ [][ChecksNext]_checkVars

-----------------------------------------------------------------------------
(* Properties. *)

\* All bytes from addr on, none of them beyond the top of the address space, are in i.
Inside(i, addr, size, mem_type) ==
  /\ Regions[i].mem_type = mem_type
  /\ Regions[i].start_addr <= addr
  /\ addr + size <= Regions[i].end_addr + 1

Containing(addr, size, mem_type) ==
  {i \in DOMAIN Regions : Inside(i, addr, size, mem_type)}

\* The verdict on a region, for bytes that do not run past the top of the address space, is
\* exact: refused for its address just when no one region of the type holds all of them,
\* though two that touch may; for permission just when the one that does is read-only.
RegionVerdictExact ==
  last.op = "region" /\ last.size > 0 /\ resolved + last.size <= AddrSpace =>
    LET Holding == Containing(resolved, last.size, last.mem_type)
    IN  /\ last.ret = CFS_MM_ERROR_INVALID_ADDR <=> Holding = {}
        /\ last.ret = CFS_MM_ERROR_PERMISSION <=>
             last.write /\ \E i \in Holding : ~Regions[i].writable

\* The type check and the region table disagree in both directions (it lets 8, 16 and 32
\* through, which no region has, and refuses the type of the flash), but never so that it
\* matters: behind it no write is denied for permission, and only RAM and EEPROM are let in.
VerifiedTypesWritable ==
  last.op = "region" /\ MM_VerifyMemType(last.mem_type) = CFE_SUCCESS =>
    /\ last.ret # CFS_MM_ERROR_PERMISSION
    /\ last.ret = CFE_SUCCESS => last.mem_type \in {MM_RAM, MM_EEPROM}

\* A datum that is aligned is of a size the size check lets through, and if its first byte
\* is in a region it lies in it to its last, so alignment and the address of a byte are all
\* that peek and poke have to check.
AlignedDatumFits ==
  last.op = "align" /\ last.ret =>
    /\ MM_VerifyDataSize(last.data_size) = CFE_SUCCESS
    /\ \A t \in MemTypes :
         Containing(resolved, 1, t) = Containing(resolved, last.data_size \div 8, t)

=============================================================================
