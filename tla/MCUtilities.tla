----------------------------- MODULE MCUtilities -----------------------------
(***************************************************************************)
(* The four parts of utils.c that keep a state from call to call.  They    *)
(* share none of it, so each is run with the others at rest: part says     *)
(* which.  (The debug print of a check in a Debug build is a message like  *)
(* any other to the log, which may come at any time.)                      *)
(*                                                                         *)
(* The checks: every address of a space of 64, with touching regions of    *)
(* one type and of two, one read-only region in the middle and one at the  *)
(* bottom.  The log: two processes, one file and stdout.  The CRC: bytes   *)
(* that stay in the table from one of the initial values, and bytes that   *)
(* leave it.                                                               *)
(***************************************************************************)
EXTENDS MemoryChecks, FuzzLog, FuzzStats, Crc32

VARIABLE part

Region(first, end, type, can_write) ==
  [start_addr |-> first, end_addr |-> end, mem_type |-> type, writable |-> can_write]

Map ==
  << Region(32, 39, MM_RAM, TRUE), Region(40, 47, MM_RAM, TRUE), Region(52, 59, MM_RAM, TRUE),
     Region(8, 15, MM_EEPROM, TRUE), Region(16, 19, MM_EEPROM, TRUE),
     Region(0, 7, 3, FALSE), Region(20, 23, 3, FALSE) >>

AllAddresses == 0 .. 63
SomeSizes    == 0 .. 12 \cup {24}
SomeTypes    == {MM_RAM, MM_EEPROM, 3, MM_MEM8}
SomeNames    == {0, 1, 5}

\* What MM_CalculateCRC starts from.
MM_CalculateCRC_Initial == 0 .. 31

SomeInitials == {{}, MM_CalculateCRC_Initial, Halves(\h1234, \h5678)}
SomeBytes    == {BitsOf(n) : n \in {0, 5, 9, 12, 15, 65, 119, 134, 143, 152, 240, 245, 255}}

UtilInit ==
  /\ part \in {"checks", "log", "stats", "crc"}
  /\ ChecksInit /\ LogInit /\ StatsInit /\ CrcInit
  /\ part # "crc" => initial = {}

UtilNext ==
  /\ \/ part = "checks" /\ ChecksNext /\ UNCHANGED <<logVars, statsVars, crcVars>>
     \/ part = "log"    /\ LogNext    /\ UNCHANGED <<checkVars, statsVars, crcVars>>
     \/ part = "stats"  /\ StatsNext  /\ UNCHANGED <<checkVars, logVars, crcVars>>
     \/ part = "crc"    /\ CrcNext    /\ UNCHANGED <<checkVars, logVars, statsVars>>
  /\ UNCHANGED part

UtilSpec == UtilInit /\ [][UtilNext]_<<part, checkVars, logVars, statsVars, crcVars>>

=============================================================================
