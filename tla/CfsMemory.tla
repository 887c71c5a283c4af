------------------------------ MODULE CfsMemory ------------------------------
(***************************************************************************)
(* The memory map of cfs_config.h and the address checks made against it.  *)
(* The map is a parameter: the module is used on the table the source      *)
(* ships and on a scaled-down copy of it.  Addresses are uint64_t in the   *)
(* source, so sums of addresses and sizes are taken modulo AddrSpace.      *)
(***************************************************************************)
EXTENDS Integers, Sequences

CONSTANTS
  Regions,     \* cfs_memory_regions, in table order
  AddrSpace    \* the number of values of uint64_t

MM_RAM    == 1
MM_EEPROM == 2

CFE_SUCCESS                  == 0
CFS_MM_ERROR_INVALID_MEMTYPE == -1
CFS_MM_ERROR_INVALID_SIZE    == -2
CFS_MM_ERROR_INVALID_ADDR    == -3
CFS_MM_ERROR_INVALID_FILE    == -4
CFS_MM_ERROR_ALIGNMENT       == -9

CFS_MemoryRegion_t ==
  [start_addr : Nat, end_addr : Nat, mem_type : Nat, writable : BOOLEAN]

ASSUME MapAssumption ==
  /\ AddrSpace \in Nat \ {0}
  /\ Regions \in Seq(CFS_MemoryRegion_t)
  /\ \A i \in DOMAIN Regions :
       /\ Regions[i].end_addr < AddrSpace
       /\ Regions[i].mem_type \in {MM_RAM, MM_EEPROM} => Regions[i].writable

\* addr + size - 1 in uint64_t arithmetic.
LastAddr(addr, size) == (addr + size - 1) % AddrSpace

\* An end test that looks at the first byte only.
IsValidMemoryAddress_FirstByte(addr, mem_type, size) ==
  \E i \in DOMAIN Regions :
    /\ Regions[i].mem_type = mem_type
    /\ addr >= Regions[i].start_addr
    /\ addr <= Regions[i].end_addr

CFS_IsValidMemoryAddress(addr, mem_type, size) ==
  \E i \in DOMAIN Regions :
    /\ Regions[i].mem_type = mem_type
    /\ addr >= Regions[i].start_addr
    /\ LastAddr(addr, size) <= Regions[i].end_addr

\* What the check stands for: the bytes from addr on, counted without wrapping, lie
\* in one writable region of the type.
RegionHolds(addr, mem_type, size) ==
  \E i \in DOMAIN Regions :
    /\ Regions[i].mem_type = mem_type
    /\ Regions[i].writable
    /\ Regions[i].start_addr <= addr
    /\ addr + size <= Regions[i].end_addr + 1

=============================================================================
