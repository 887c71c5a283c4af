---------------------------- MODULE HelperAgreement ----------------------------
(***************************************************************************)
(* The harness against the helpers of utils.c.  The simulator makes the    *)
(* checks of the command with code of its own, and so does the builder the *)
(* header, although the harness is linked with functions for both.         *)
(***************************************************************************)
EXTENDS FuzzTarget

CONSTANT LookupBase     \* 0x20000000 of the mock's symbol table

H == INSTANCE MmHelpers WITH LookupStride <- SymbolStride

\* What MM_VerifyFileName sees of a name the builder made: the directory is still whole when
\* it fits the buffer, and nothing else of it can be a "../".
NameOf(p) ==
  LET entry == (data.path % Len(PathLens)) + 1
  IN  [len |-> p.FileLen, up |-> FALSE,
       dir |-> IF PathLens[entry] < OS_MAX_PATH_LEN THEN entry ELSE 0]

\* The checks of the simulator, in its order, made with the helpers.
HelperVerdict(p) ==
  LET addr == H!MM_ResolveSymAddr(p.SymLen, p.Offset)
  IN  IF H!MM_VerifyMemType(p.MemType) # CFE_SUCCESS THEN CFS_MM_ERROR_INVALID_MEMTYPE
      ELSE IF p.NumOfBytes \notin 1 .. H!CFS_GetMaxDataSize(p.MemType)
        THEN CFS_MM_ERROR_INVALID_SIZE
      ELSE IF H!MM_VerifyFileName(NameOf(p)) # CFE_SUCCESS THEN CFS_MM_ERROR_INVALID_FILE
      ELSE IF H!CFS_ValidateMemoryRegion(addr, p.NumOfBytes, p.MemType, TRUE) # CFE_SUCCESS
        THEN CFS_MM_ERROR_INVALID_ADDR
      ELSE IF ~H!MM_IsValidAlignment(addr, H!MM_MEM32) THEN CFS_MM_ERROR_ALIGNMENT
      ELSE CFE_SUCCESS

-----------------------------------------------------------------------------
(* Properties. *)

\* Every command the harness judges would be judged the same by the helpers, though they ask
\* more (an allowed directory, write access), take the symbols from a table of their own and
\* know no alignment but that of a datum: true where the RAM base is the mock's and the
\* alignment a double word's, as on x86.
HelpersAgree == pc = "free" => HelperVerdict(packet) = status

\* The header the builder sets field by field, on a packet it cleared, is the one
\* CFS_InitPacketHeader makes of a packet in any state, and the command's id is read back
\* from it; the function code is not, the mock makes a no-op of every command.
HeadersAgree ==
  pc = "free" =>
    LET used == [packet EXCEPT !.StreamId = 65535, !.Sequence = 65535, !.Length = 65535]
        id   == CFE_SB_ValueToMsgId(MM_CMD_MID)
    IN  /\ CFS_InitPacketHeader(used, id, PacketSize, MM_LOAD_MEM_FROM_FILE_CC) = packet
        /\ CFE_MSG_GetMsgId(packet) = id
        /\ CFE_MSG_GetFcnCode(packet) = MM_NOOP_CC

=============================================================================
