----------------------------- MODULE MCFuzzTarget -----------------------------
(***************************************************************************)
(* FuzzTarget on small constants: a scaled copy of the memory map, with    *)
(* the same pairs of regions touching, and every input that reads          *)
(* differently.  Then on the map and the limits of the source.             *)
(***************************************************************************)
EXTENDS HelperAgreement

Region(first, last, type, writable) ==
  [start_addr |-> first, end_addr |-> last, mem_type |-> type, writable |-> writable]

\* RAM main and backup touch, EEPROM config and data touch, EEPROM and flash touch.
SmallRegions ==
  << Region(40, 47, MM_RAM, TRUE), Region(48, 55, MM_RAM, TRUE), Region(64, 79, MM_RAM, TRUE),
     Region(8, 15, MM_EEPROM, TRUE), Region(16, 31, MM_EEPROM, TRUE),
     Region(0, 7, 3, FALSE), Region(32, 39, 3, FALSE) >>

SmallSymbolLens == <<1, 2, 5>>
SmallPathLens   == <<5, 17, 63, 70>>

\* Lengths on both sides of the command's, and a long one.
SmallInputs ==
  [size : {8, 119, 120, 200}, memtype : {0, 1}, numbytes : 0 .. 7, crc : {7},
   choice : {0}, symbol : 0 .. 3, offset : {0}, path : 0 .. 3]
  \cup
  [size : {120}, memtype : {2, 3}, numbytes : 0 .. 7, crc : {7},
   choice : {1}, symbol : {0}, offset : 0 .. 65, path : {0}]

-----------------------------------------------------------------------------
(* The map and limits of the source.  TLC's integers end at 2^31 - 1, so   *)
(* the span of the offsets is cut short of 2^31 and the address space with *)
(* it; the offsets sampled are the edges of every region, seen from both   *)
(* base addresses.                                                         *)

SourceRegions ==
  << Region(536870912, 537395199, MM_RAM, TRUE),     \* 0x20000000
     Region(537395200, 537919487, MM_RAM, TRUE),     \* 0x20080000
     Region(1610612736, 1744830463, MM_RAM, TRUE),   \* 0x60000000
     Region(134742016, 135266303, MM_EEPROM, TRUE),  \* 0x08080000
     Region(135266304, 136314879, MM_EEPROM, TRUE),  \* 0x08100000
     Region(134217728, 134742015, 3, FALSE),         \* 0x08000000
     Region(136314880, 142606335, 3, FALSE) >>       \* 0x08200000

\* CFS_DEFAULT_RAM_ADDR and CFS_DEFAULT_EEPROM_ADDR of two of the targets.
X86RamBase      == 536870912    \* 0x20000000
X86EepromBase   == 134742016    \* 0x08080000
SparcRamBase    == 1073741824   \* 0x40000000
SparcEepromBase == 805306368    \* 0x30000000

SourceSymbolLens ==
  <<13, 14, 14, 13, 15, 10, 12, 13, 13, 10, 10, 10, 10, 10, 10, 10, 11, 14, 15, 19, 13, 11,
    16, 14>>
SourcePathLens == <<9, 13, 11, 8, 8, 5, 5, 5, 13, 14, 13, 14, 14, 15, 17>>

Edges ==
  {r.start_addr : r \in {SourceRegions[i] : i \in DOMAIN SourceRegions}}
    \cup {r.end_addr + 1 : r \in {SourceRegions[i] : i \in DOMAIN SourceRegions}}

EdgeOffsets ==
  {0} \cup
  ({e - b + k : e \in Edges, b \in {RamBase, EepromBase}, k \in {-8, -4, -2, -1, 0, 1, 2, 4}}
     \cap (0 .. OffsetSpan - 1))

SourceInputs ==
  [size : {119, 120, 4096}, memtype : {0, 1}, numbytes : {0, 131071, 1048575}, crc : {0},
   choice : {0}, symbol : 0 .. 24, offset : {0}, path : {0, 14}]
  \cup
  [size : {120}, memtype : {0, 1}, numbytes : {0, 1, 3, 4, 7, 131071, 131072, 1048575}, crc : {0},
   choice : {255}, symbol : {0}, offset : EdgeOffsets, path : {7}]

=============================================================================
