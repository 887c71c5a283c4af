------------------------------ MODULE FuzzTarget ------------------------------
(***************************************************************************)
(* LLVMFuzzerTestOneInput, as the fuzzing engine drives it: one call after *)
(* another on the same process, each with bytes of the engine's choice.    *)
(* A call checks the length, builds the command, has it judged, and frees  *)
(* it.  The engine is external; it is taken to make any call at any time.  *)
(***************************************************************************)
EXTENDS PacketBuilder

VARIABLE status     \* what the simulator returned last

vars == <<pc, data, cursor, packet, live, status>>

NoStatus == 1

\* Every address the harness can name, and the last byte of a load there, are values
\* of uint64_t: none of the sums in the source wraps.
ASSUME NoWrapAssumption ==
  /\ RamBase + OffsetSpan + MaxLoadRam <= AddrSpace
  /\ EepromBase + OffsetSpan + MaxLoadEeprom <= AddrSpace
  /\ RamBase + (OS_MAX_API_NAME * SymbolStride) + MaxLoadRam <= AddrSpace
  /\ RamBase + (OS_MAX_API_NAME * SymbolStride) + MaxLoadEeprom <= AddrSpace

\* The builder reads at most 19 bytes; the command it demands in their place has 120.
ASSUME LayoutAssumption == PacketSize >= 19

Init ==
  /\ pc = "idle"
  /\ data = NoInput
  /\ cursor = 0
  /\ packet = ZeroedPacket
  /\ live = 0
  /\ status = NoStatus

LLVMFuzzerTestOneInput ==
  /\ pc = "idle"
  /\ data' \in Inputs
  /\ pc' = "entry"
  /\ UNCHANGED <<cursor, packet, live, status>>

\* return 0: the call's arguments and locals are gone.
Return ==
  /\ pc' = "idle"
  /\ data' = NoInput
  /\ cursor' = 0
  /\ packet' = ZeroedPacket

EntryTooShort ==
  /\ pc = "entry"
  /\ TooShort(data.size)
  /\ Return
  /\ UNCHANGED <<live, status>>

EntryLongEnough ==
  /\ pc = "entry"
  /\ ~TooShort(data.size)
  /\ pc' = "size"
  /\ UNCHANGED <<data, cursor, packet, live, status>>

Construct == MM_Load_ConstructPacket /\ UNCHANGED status

\* Trying again instead of giving up.
ReturnNull_Retries ==
  /\ pc = "null"
  /\ pc' = "size"
  /\ UNCHANGED <<data, cursor, packet, live, status>>

\* if (!packet) return 0
ReturnNull ==
  /\ pc = "null"
  /\ Return
  /\ UNCHANGED <<live, status>>

Simulate ==
  /\ pc = "built"
  /\ status' = MM_LoadMemFromFileCmd_Simulation(packet)
  /\ pc' = "free"
  /\ UNCHANGED <<data, cursor, packet, live>>

\* An early return on a rejected command.
FreePacket_OnSuccess ==
  /\ pc = "free"
  /\ live' = IF status = CFE_SUCCESS THEN live - 1 ELSE live
  /\ Return
  /\ UNCHANGED status

FreePacket ==
  /\ pc = "free"
  /\ live' = live - 1
  /\ Return
  /\ UNCHANGED status

Harness ==
  EntryTooShort \/ EntryLongEnough \/ Construct \/ ReturnNull \/ Simulate \/ FreePacket

Next == LLVMFuzzerTestOneInput \/ Harness

\* A call, once begun, runs to its return; the engine need not make another one.
Spec == Init /\ [][Next]_vars /\ WF_vars(Harness)

-----------------------------------------------------------------------------
(* Properties. *)

BuilderStages ==
  {"header", "MemType", "NumOfBytes", "CRC", "DestSymAddress", "FileName", "built"}

\* The state is well typed; above all, live never leaves 0..1: no packet is freed twice,
\* and no call starts with a packet of an earlier one still allocated.
TypeOK ==
  /\ pc \in BuilderStages \cup {"idle", "entry", "size", "malloc", "null", "free"}
  /\ data \in Inputs \cup {NoInput}
  /\ cursor \in Nat
  /\ packet \in Packet
  /\ live \in 0 .. 1
  /\ status \in {NoStatus, CFE_SUCCESS, CFS_MM_ERROR_INVALID_MEMTYPE,
                 CFS_MM_ERROR_INVALID_SIZE, CFS_MM_ERROR_INVALID_FILE,
                 CFS_MM_ERROR_INVALID_ADDR, CFS_MM_ERROR_ALIGNMENT}

\* Bytes of the input read before each stage; the address takes 2 or 9 of them.
AddressBytes == IF data.choice % 2 = 0 THEN 2 ELSE 9

BytesBefore(stage) ==
  CASE stage \in {"header", "MemType"} -> 0
    [] stage = "NumOfBytes" -> 1
    [] stage = "CRC" -> 5
    [] stage = "DestSymAddress" -> 9
    [] stage = "FileName" -> 9 + AddressBytes
    [] stage \in {"built", "free"} -> 10 + AddressBytes

\* The cursor moves over the input exactly as the field layout says, whatever the input
\* holds, and never passes the end of it: the builder's length check makes all of its
\* "not enough data" branches unreachable, so no field is ever a default.
CursorTracksFields ==
  pc \in (BuilderStages \cup {"free"}) \ {"header"} =>
    /\ cursor = BytesBefore(pc)
    /\ cursor <= data.size

\* Every packet allocated in a call is freed before the call returns, on the paths that
\* fail as on the one that succeeds; while it is being filled or judged it is allocated.
NoLeak == live = IF pc \in BuilderStages \cup {"free"} THEN 1 ELSE 0

\* Where the command is to be loaded is a name in RAM or an offset from the base of its
\* own memory type.
DestInRange(p) ==
  \/ p.SymLen \in 1 .. OS_MAX_API_NAME - 1 /\ p.Offset = 0
  \/ p.SymLen = 0
     /\ p.Offset \in BaseAddr(p.MemType) .. (BaseAddr(p.MemType) + OffsetSpan - 1)

HeaderComplete(p) ==
  /\ p.StreamId = MM_CMD_MID % 65536
  /\ p.Length = PacketSize % 65536
  /\ p.Sequence = 3 * 16384

\* A packet handed to the simulator has its header complete (the segmentation flag, set
\* in the same word as the count, survives), a size its own memory type permits, and a
\* destination reckoned from that type's base.
CommandWellFormed ==
  pc \in {"built", "free"} =>
    /\ HeaderComplete(packet)
    /\ packet.MemType \in {MM_RAM, MM_EEPROM}
    /\ packet.NumOfBytes \in 1 .. MaxLoad(packet.MemType)
    /\ packet.FileLen \in 1 .. OS_MAX_PATH_LEN - 1
    /\ DestInRange(packet)

\* Whatever the engine feeds it, the harness only ever exercises the simulator's address
\* and alignment checks: builder and simulator agree on every other limit.
OnlyPlacementErrors ==
  status \in {NoStatus, CFE_SUCCESS, CFS_MM_ERROR_INVALID_ADDR, CFS_MM_ERROR_ALIGNMENT}

\* A load the simulator accepts lies, down to its last byte, in one writable region of
\* its memory type, and starts aligned.
AcceptedLoadFits ==
  pc = "free" /\ status = CFE_SUCCESS =>
    /\ RegionHolds(ResolvedAddr(packet), packet.MemType, packet.NumOfBytes)
    /\ ResolvedAddr(packet) % MemoryAlignment = 0

\* A symbol stands for an address in RAM, so no load into EEPROM that names one is ever
\* accepted: the simulator resolves names without looking at the memory type.
SymbolLoadsAreRam ==
  pc = "free" /\ status = CFE_SUCCESS /\ packet.SymLen > 0 => packet.MemType = MM_RAM

\* The default address of each memory type is one the target can load at: a byte sent
\* there is accepted.
BaseIsLoadable ==
  pc = "free" /\ packet.SymLen = 0 /\ packet.Offset = BaseAddr(packet.MemType)
              /\ packet.NumOfBytes = 1
    => status = CFE_SUCCESS

\* Every call of the entry point returns.
CallReturns == (pc # "idle") ~> (pc = "idle")

-----------------------------------------------------------------------------
(* What makes the properties inductive: the fields set by each stage.      *)

FieldsSoFar ==
  /\ pc \in (BuilderStages \cup {"free"}) \ {"header"} => HeaderComplete(packet)
  /\ pc \in {"NumOfBytes", "CRC", "DestSymAddress", "FileName", "built", "free"} =>
       packet.MemType \in {MM_RAM, MM_EEPROM}
  /\ pc \in {"CRC", "DestSymAddress", "FileName", "built", "free"} =>
       packet.NumOfBytes \in 1 .. MaxLoad(packet.MemType)
  /\ pc \in {"FileName", "built", "free"} => DestInRange(packet)
  /\ pc \in {"built", "free"} => packet.FileLen \in 1 .. OS_MAX_PATH_LEN - 1

LongEnough ==
  /\ pc = "entry" => data \in Inputs
  /\ pc \in BuilderStages \cup {"size", "malloc", "free"} =>
       data \in Inputs /\ data.size >= PacketSize

JudgedPacket == pc = "free" => status = MM_LoadMemFromFileCmd_Simulation(packet)

\* The inductive invariant: in every stage the fields set so far are legal, the input is
\* long enough for those to come, and the status is the one of the packet in hand.
IInv ==
  TypeOK /\ CursorTracksFields /\ NoLeak /\ FieldsSoFar /\ LongEnough /\ JudgedPacket
    /\ OnlyPlacementErrors

-----------------------------------------------------------------------------
(* The harness implements the contract: a request is pending from the      *)
(* moment its packet is complete until the simulator has judged it.        *)

Request(p) ==
  [mem_type |-> p.MemType, num_of_bytes |-> p.NumOfBytes, addr |-> ResolvedAddr(p)]

Pending == IF pc = "built" THEN {Request(packet)} ELSE {}

Verdict ==
  CASE status = NoStatus -> "none"
    [] status = CFE_SUCCESS -> "accepted"
    [] OTHER -> "rejected"

LC == INSTANCE LoadContract WITH pending <- Pending, verdict <- Verdict

\* The harness implements the load contract.
ImplementsContract == LC!Contract

=============================================================================
