------------------------------ MODULE MsgHeader ------------------------------
(***************************************************************************)
(* The message header of cfe_mock.h, as operators on any record with the   *)
(* fields StreamId, Sequence and Length, all of them uint16_t.  The mock   *)
(* keeps no function code, and reads every one back as 0.                  *)
(***************************************************************************)
EXTENDS Integers

CFE_SB_ValueToMsgId(value) == [Value |-> value]

CFE_MSG_SetMsgId(p, id)          == [p EXCEPT !.StreamId = id.Value % 65536]
CFE_MSG_SetSize(p, n)            == [p EXCEPT !.Length = n % 65536]
CFE_MSG_SetSequenceCount(p, c)   == [p EXCEPT !.Sequence = c % 65536]
CFE_MSG_SetSegmentationFlag(p, f) ==
  [p EXCEPT !.Sequence = (@ % 16384) + ((f % 4) * 16384)]
CFE_MSG_SetFcnCode(p, code) == p

CFE_MSG_GetMsgId(p)   == CFE_SB_ValueToMsgId(p.StreamId)
CFE_MSG_GetFcnCode(p) == 0

\* The count written after the flag it shares a word with.
InitPacketHeader_CountLast(p, id, length, code) ==
  CFE_MSG_SetSequenceCount(
    CFE_MSG_SetSegmentationFlag(CFE_MSG_SetSize(CFE_MSG_SetMsgId(p, id), length), 3), 0)

\* memset of the header, then the setters in the one order that keeps the flag.
CFS_InitPacketHeader(p, id, length, code) ==
  LET zeroed == [p EXCEPT !.StreamId = 0, !.Sequence = 0, !.Length = 0]
      sized  == CFE_MSG_SetSize(CFE_MSG_SetMsgId(zeroed, id), length)
  IN  CFE_MSG_SetFcnCode(
        CFE_MSG_SetSegmentationFlag(CFE_MSG_SetSequenceCount(sized, 0), 3), code)

=============================================================================
