-------------------------------- MODULE Crc32 --------------------------------
(***************************************************************************)
(* MM_CalculateCRC32 of utils.c, a byte at a time, from any initial value: *)
(* the calls that are given one result as the next initial value make one  *)
(* long message.  A word is the set of its bits that are 1, so exclusive   *)
(* or is the symmetric difference.                                         *)
(***************************************************************************)
EXTENDS Integers, Sequences, FiniteSetsExt

CONSTANTS
  InitialCrcs,   \* initial values
  Bytes,         \* bytes of the messages
  MaxBytes       \* bound on the length of a message

Word == SUBSET (0 .. 31)

ASSUME CrcAssumption ==
  /\ InitialCrcs \subseteq Word
  /\ Bytes \subseteq SUBSET (0 .. 7)
  /\ MaxBytes \in Nat

VARIABLES
  crc,       \* the value returned so far
  initial,   \* history: the value the message started from
  message,   \* history: its bytes
  misses     \* history: how many lookups in a row went past the entries of the table

crcVars == <<crc, initial, message, misses>>

\* A word given as its halves.
BitsOf(n) == {i \in 0 .. 15 : (n \div (2 ^ i)) % 2 = 1}
Halves(hi, lo) == BitsOf(lo) \cup {i + 16 : i \in BitsOf(hi)}

\* The entries the source gives; the other 240 of crc_table are zero.
crc_table ==
  << Halves(0, 0),           Halves(\h7707, \h3096), Halves(\hEE0E, \h612C),
     Halves(\h9909, \h51BA), Halves(\h076D, \hC419), Halves(\h706A, \hF48F),
     Halves(\hE963, \hA535), Halves(\h9E64, \h95A3), Halves(\h0EDB, \h8832),
     Halves(\h79DC, \hB8A4), Halves(\hE0D5, \hE91E), Halves(\h97D2, \hD988),
     Halves(\h09B6, \h4C2B), Halves(\h7EB1, \h7CBD), Halves(\hE7B8, \h2D07),
     Halves(\h90BF, \h1D91) >>

\* The value of the low four bits of a word.
Nibble(word) ==
  LET Bit(i) == IF i \in word THEN 1 ELSE 0
  IN  Bit(0) + (2 * Bit(1)) + (4 * Bit(2)) + (8 * Bit(3))

\* (crc ^ byte) & 0xFF
Index(word, byte) == SymDiff(word, byte) \cap (0 .. 7)

InTable(index) == index \subseteq 0 .. 3

\* A table of 16 entries indexed with four bits.
Entry_FourBits(index) == crc_table[Nibble(index) + 1]

Entry(index) == IF InTable(index) THEN crc_table[Nibble(index) + 1] ELSE {}

ShiftRight(word, n) == {i \in 0 .. 31 - n : i + n \in word}

\* The byte folded in after the shift.
Step_ShiftFirst(word, byte) ==
  SymDiff(Entry(Index(ShiftRight(word, 8), byte)), ShiftRight(word, 8))

Step(word, byte) == SymDiff(Entry(Index(word, byte)), ShiftRight(word, 8))

CrcInit ==
  /\ initial \in InitialCrcs
  /\ crc = initial
  /\ message = << >>
  /\ misses = 0

MM_CalculateCRC32 ==
  /\ Len(message) < MaxBytes
  /\ \E byte \in Bytes :
       /\ crc' = Step(crc, byte)
       /\ message' = Append(message, byte)
       /\ misses' = IF InTable(Index(crc, byte)) THEN 0 ELSE misses + 1
  /\ UNCHANGED initial

CrcNext == MM_CalculateCRC32

CrcSpec == CrcInit /\ [][CrcNext]_crcVars

-----------------------------------------------------------------------------
(* Properties. *)

\* The register of CRC-32 by its definition, bit by bit, with the reflected polynomial
\* 0xEDB88320; the complement at the end of a CRC-32 is not the function's.
Polynomial == Halves(\hEDB8, \h8320)

Divided(word) ==
  IF 0 \in word THEN SymDiff(ShiftRight(word, 1), Polynomial) ELSE ShiftRight(word, 1)

ByBits(word, byte) ==
  LET after[n \in 0 .. 8] ==
        IF n = 0 THEN SymDiff(word, byte) ELSE Divided(after[n - 1])
  IN  after[8]

\* The values a message takes the register through.
Reference ==
  LET at[n \in 0 .. Len(message)] ==
        IF n = 0 THEN initial ELSE ByBits(at[n - 1], message[n])
  IN  at

\* The value is that of the register of CRC-32, from any initial value, as long as no byte of
\* the message looks past the 16 entries the table has.
RightWhileInTable ==
  (\A n \in 1 .. Len(message) : InTable(Index(Reference[n - 1], message[n])))
    => crc = Reference[Len(message)]

\* Each lookup past the entries in a row loses eight more bits: after four of them the value
\* is 0, whatever the message was before and whatever the initial value, so that messages
\* collide for their last bytes alone.
MissesForget == crc \subseteq 0 .. 31 - 8 * misses

=============================================================================
