---------------------------- MODULE Crc32_proofs ----------------------------
(***************************************************************************)
(* What the missing entries of the CRC table cost, and what the others     *)
(* give, for every initial value and every message.                        *)
(***************************************************************************)
EXTENDS Crc32, TLAPS

\* A word has 32 bits.
LEMMA HalvesWord == ASSUME NEW hi, NEW lo PROVE Halves(hi, lo) \in Word
BY DEF Halves, BitsOf, Word

\* Every entry of the table is a word, given or not.
LEMMA EntryWord == ASSUME NEW index PROVE Entry(index) \in Word
<1>1. \A k \in 1 .. 16 : crc_table[k] \in Word
  BY HalvesWord DEF crc_table
<1>2. Nibble(index) + 1 \in 1 .. 16
  BY DEF Nibble
<1> QED
  BY <1>1, <1>2 DEF Entry, Word

CrcInv == misses \in Nat /\ MissesForget

\* A lookup that misses only shifts; one that hits starts again with a whole word.
LEMMA StepForgets ==
  ASSUME CrcInv, NEW byte
  PROVE  /\ InTable(Index(crc, byte)) => Step(crc, byte) \subseteq 0 .. 31
         /\ ~InTable(Index(crc, byte)) => Step(crc, byte) \subseteq 0 .. 31 - 8 * (misses + 1)
<1>1. ShiftRight(crc, 8) \subseteq 0 .. 31 - 8 * (misses + 1)
  BY DEF ShiftRight, CrcInv, MissesForget
<1>2. ShiftRight(crc, 8) \subseteq 0 .. 31
  BY <1>1 DEF ShiftRight
<1>3. Entry(Index(crc, byte)) \subseteq 0 .. 31
  BY EntryWord DEF Word
<1>4. ~InTable(Index(crc, byte)) => Entry(Index(crc, byte)) = {}
  BY DEF Entry
<1> QED
  BY <1>1, <1>2, <1>3, <1>4 DEF Step, SymDiff

\* Each lookup past the 16 entries loses eight bits of what the message was before, so four
\* in a row leave 0 of any message and any initial value.
THEOREM MissesAlwaysForget == CrcSpec => []MissesForget
<1>1. CrcInit => CrcInv
  BY CrcAssumption DEF CrcInit, CrcInv, MissesForget, Word
<1>2. CrcInv /\ [CrcNext]_crcVars => CrcInv'
  <2> SUFFICES ASSUME CrcInv, [CrcNext]_crcVars PROVE CrcInv'
    OBVIOUS
  <2>1. CASE CrcNext
    <3>1. PICK byte \in Bytes :
            /\ crc' = Step(crc, byte)
            /\ misses' = IF InTable(Index(crc, byte)) THEN 0 ELSE misses + 1
      BY <2>1 DEF CrcNext, MM_CalculateCRC32
    <3>2. misses' \in Nat
      BY <3>1 DEF CrcInv
    <3> QED
      BY <3>1, <3>2, StepForgets DEF CrcInv, MissesForget
  <2>2. CASE UNCHANGED crcVars
    BY <2>2 DEF crcVars, CrcInv, MissesForget
  <2> QED
    BY <2>1, <2>2
<1>3. CrcInv => MissesForget
  BY DEF CrcInv
<1> QED
  BY <1>1, <1>2, <1>3, PTL DEF CrcSpec

-----------------------------------------------------------------------------
(* The entries the table has are those of CRC-32. *)

\* The powers of two that BitsOf divides by.
Power == <<1, 2, 4, 8, 16, 32, 64, 128, 256, 512, 1024, 2048, 4096, 8192, 16384, 32768>>

LEMMA Powers == \A i \in 0 .. 15 : 2 ^ i = Power[i + 1]
<1> SUFFICES ASSUME NEW i \in 0 .. 15 PROVE 2 ^ i = Power[i + 1]
  OBVIOUS
<1>0. CASE i = 0
  BY <1>0 DEF Power
<1>1. CASE i = 1
  BY <1>1 DEF Power
<1>2. CASE i = 2
  BY <1>2 DEF Power
<1>3. CASE i = 3
  BY <1>3 DEF Power
<1>4. CASE i = 4
  BY <1>4 DEF Power
<1>5. CASE i = 5
  BY <1>5 DEF Power
<1>6. CASE i = 6
  BY <1>6 DEF Power
<1>7. CASE i = 7
  BY <1>7 DEF Power
<1>8. CASE i = 8
  BY <1>8 DEF Power
<1>9. CASE i = 9
  BY <1>9 DEF Power
<1>10. CASE i = 10
  BY <1>10 DEF Power
<1>11. CASE i = 11
  BY <1>11 DEF Power
<1>12. CASE i = 12
  BY <1>12 DEF Power
<1>13. CASE i = 13
  BY <1>13 DEF Power
<1>14. CASE i = 14
  BY <1>14 DEF Power
<1>15. CASE i = 15
  BY <1>15 DEF Power
<1> QED
  BY <1>0, <1>1, <1>2, <1>3, <1>4, <1>5, <1>6, <1>7, <1>8, <1>9, <1>10, <1>11, <1>12, <1>13,
     <1>14, <1>15

LEMMA BitsByPower ==
  ASSUME NEW n PROVE BitsOf(n) = {i \in 0 .. 15 : (n \div Power[i + 1]) % 2 = 1}
BY Powers DEF BitsOf

\* The bits of the polynomial and of the entries the source gives, read off the hexadecimal.
LEMMA PolynomialBits ==
  Polynomial = {5, 8, 9, 15, 19, 20, 21, 23, 24, 26, 27, 29, 30, 31}
<1>1. BitsOf(\hEDB8) = {3, 4, 5, 7, 8, 10, 11, 13, 14, 15}
  BY BitsByPower DEF Power
<1>2. BitsOf(\h8320) = {5, 8, 9, 15}
  BY BitsByPower DEF Power
<1> QED
  BY <1>1, <1>2 DEF Polynomial, Halves

LEMMA TableBits ==
  /\ crc_table[1] = {}
  /\ crc_table[2] = {1, 2, 4, 7, 12, 13, 16, 17, 18, 24, 25, 26, 28, 29, 30}
  /\ crc_table[3] = {2, 3, 5, 8, 13, 14, 17, 18, 19, 25, 26, 27, 29, 30, 31}
  /\ crc_table[4] = {1, 3, 4, 5, 7, 8, 12, 14, 16, 19, 24, 27, 28, 31}
  /\ crc_table[5] = {0, 3, 4, 10, 14, 15, 16, 18, 19, 21, 22, 24, 25, 26}
  /\ crc_table[6] = {0, 1, 2, 3, 7, 10, 12, 13, 14, 15, 17, 19, 21, 22, 28, 29, 30}
  /\ crc_table[7] = {0, 2, 4, 5, 8, 10, 13, 15, 16, 17, 21, 22, 24, 27, 29, 30, 31}
  /\ crc_table[8] = {0, 1, 5, 7, 8, 10, 12, 15, 18, 21, 22, 25, 26, 27, 28, 31}
  /\ crc_table[9] = {1, 4, 5, 11, 15, 16, 17, 19, 20, 22, 23, 25, 26, 27}
  /\ crc_table[10] = {2, 5, 7, 11, 12, 13, 15, 18, 19, 20, 22, 23, 24, 27, 28, 29, 30}
  /\ crc_table[11] = {1, 2, 3, 4, 8, 11, 13, 14, 15, 16, 18, 20, 22, 23, 29, 30, 31}
  /\ crc_table[12] = {3, 7, 8, 11, 12, 14, 15, 17, 20, 22, 23, 24, 25, 26, 28, 31}
  /\ crc_table[13] = {0, 1, 3, 5, 10, 11, 14, 17, 18, 20, 21, 23, 24, 27}
  /\ crc_table[14] = {0, 2, 3, 4, 5, 7, 10, 11, 12, 13, 14, 16, 20, 21, 23, 25, 26, 27, 28, 29, 30}
  /\ crc_table[15] = {0, 1, 2, 8, 10, 11, 13, 19, 20, 21, 23, 24, 25, 26, 29, 30, 31}
  /\ crc_table[16] = {0, 4, 7, 8, 10, 11, 12, 16, 17, 18, 19, 20, 21, 23, 28, 31}
<1>1. crc_table[1] = {}
  <2>1. BitsOf(\h0000) = {}
    BY BitsByPower DEF Power
  <2>2. BitsOf(\h0000) = {}
    BY BitsByPower DEF Power
  <2> QED
    BY <2>1, <2>2 DEF crc_table, Halves
<1>2. crc_table[2] = {1, 2, 4, 7, 12, 13, 16, 17, 18, 24, 25, 26, 28, 29, 30}
  <2>1. BitsOf(\h7707) = {0, 1, 2, 8, 9, 10, 12, 13, 14}
    BY BitsByPower DEF Power
  <2>2. BitsOf(\h3096) = {1, 2, 4, 7, 12, 13}
    BY BitsByPower DEF Power
  <2> QED
    BY <2>1, <2>2 DEF crc_table, Halves
<1>3. crc_table[3] = {2, 3, 5, 8, 13, 14, 17, 18, 19, 25, 26, 27, 29, 30, 31}
  <2>1. BitsOf(\hEE0E) = {1, 2, 3, 9, 10, 11, 13, 14, 15}
    BY BitsByPower DEF Power
  <2>2. BitsOf(\h612C) = {2, 3, 5, 8, 13, 14}
    BY BitsByPower DEF Power
  <2> QED
    BY <2>1, <2>2 DEF crc_table, Halves
<1>4. crc_table[4] = {1, 3, 4, 5, 7, 8, 12, 14, 16, 19, 24, 27, 28, 31}
  <2>1. BitsOf(\h9909) = {0, 3, 8, 11, 12, 15}
    BY BitsByPower DEF Power
  <2>2. BitsOf(\h51BA) = {1, 3, 4, 5, 7, 8, 12, 14}
    BY BitsByPower DEF Power
  <2> QED
    BY <2>1, <2>2 DEF crc_table, Halves
<1>5. crc_table[5] = {0, 3, 4, 10, 14, 15, 16, 18, 19, 21, 22, 24, 25, 26}
  <2>1. BitsOf(\h076D) = {0, 2, 3, 5, 6, 8, 9, 10}
    BY BitsByPower DEF Power
  <2>2. BitsOf(\hC419) = {0, 3, 4, 10, 14, 15}
    BY BitsByPower DEF Power
  <2> QED
    BY <2>1, <2>2 DEF crc_table, Halves
<1>6. crc_table[6] = {0, 1, 2, 3, 7, 10, 12, 13, 14, 15, 17, 19, 21, 22, 28, 29, 30}
  <2>1. BitsOf(\h706A) = {1, 3, 5, 6, 12, 13, 14}
    BY BitsByPower DEF Power
  <2>2. BitsOf(\hF48F) = {0, 1, 2, 3, 7, 10, 12, 13, 14, 15}
    BY BitsByPower DEF Power
  <2> QED
    BY <2>1, <2>2 DEF crc_table, Halves
<1>7. crc_table[7] = {0, 2, 4, 5, 8, 10, 13, 15, 16, 17, 21, 22, 24, 27, 29, 30, 31}
  <2>1. BitsOf(\hE963) = {0, 1, 5, 6, 8, 11, 13, 14, 15}
    BY BitsByPower DEF Power
  <2>2. BitsOf(\hA535) = {0, 2, 4, 5, 8, 10, 13, 15}
    BY BitsByPower DEF Power
  <2> QED
    BY <2>1, <2>2 DEF crc_table, Halves
<1>8. crc_table[8] = {0, 1, 5, 7, 8, 10, 12, 15, 18, 21, 22, 25, 26, 27, 28, 31}
  <2>1. BitsOf(\h9E64) = {2, 5, 6, 9, 10, 11, 12, 15}
    BY BitsByPower DEF Power
  <2>2. BitsOf(\h95A3) = {0, 1, 5, 7, 8, 10, 12, 15}
    BY BitsByPower DEF Power
  <2> QED
    BY <2>1, <2>2 DEF crc_table, Halves
<1>9. crc_table[9] = {1, 4, 5, 11, 15, 16, 17, 19, 20, 22, 23, 25, 26, 27}
  <2>1. BitsOf(\h0EDB) = {0, 1, 3, 4, 6, 7, 9, 10, 11}
    BY BitsByPower DEF Power
  <2>2. BitsOf(\h8832) = {1, 4, 5, 11, 15}
    BY BitsByPower DEF Power
  <2> QED
    BY <2>1, <2>2 DEF crc_table, Halves
<1>10. crc_table[10] = {2, 5, 7, 11, 12, 13, 15, 18, 19, 20, 22, 23, 24, 27, 28, 29, 30}
  <2>1. BitsOf(\h79DC) = {2, 3, 4, 6, 7, 8, 11, 12, 13, 14}
    BY BitsByPower DEF Power
  <2>2. BitsOf(\hB8A4) = {2, 5, 7, 11, 12, 13, 15}
    BY BitsByPower DEF Power
  <2> QED
    BY <2>1, <2>2 DEF crc_table, Halves
<1>11. crc_table[11] = {1, 2, 3, 4, 8, 11, 13, 14, 15, 16, 18, 20, 22, 23, 29, 30, 31}
  <2>1. BitsOf(\hE0D5) = {0, 2, 4, 6, 7, 13, 14, 15}
    BY BitsByPower DEF Power
  <2>2. BitsOf(\hE91E) = {1, 2, 3, 4, 8, 11, 13, 14, 15}
    BY BitsByPower DEF Power
  <2> QED
    BY <2>1, <2>2 DEF crc_table, Halves
<1>12. crc_table[12] = {3, 7, 8, 11, 12, 14, 15, 17, 20, 22, 23, 24, 25, 26, 28, 31}
  <2>1. BitsOf(\h97D2) = {1, 4, 6, 7, 8, 9, 10, 12, 15}
    BY BitsByPower DEF Power
  <2>2. BitsOf(\hD988) = {3, 7, 8, 11, 12, 14, 15}
    BY BitsByPower DEF Power
  <2> QED
    BY <2>1, <2>2 DEF crc_table, Halves
<1>13. crc_table[13] = {0, 1, 3, 5, 10, 11, 14, 17, 18, 20, 21, 23, 24, 27}
  <2>1. BitsOf(\h09B6) = {1, 2, 4, 5, 7, 8, 11}
    BY BitsByPower DEF Power
  <2>2. BitsOf(\h4C2B) = {0, 1, 3, 5, 10, 11, 14}
    BY BitsByPower DEF Power
  <2> QED
    BY <2>1, <2>2 DEF crc_table, Halves
<1>14. crc_table[14] = {0, 2, 3, 4, 5, 7, 10, 11, 12, 13, 14, 16, 20, 21, 23, 25, 26, 27, 28, 29,
                        30}
  <2>1. BitsOf(\h7EB1) = {0, 4, 5, 7, 9, 10, 11, 12, 13, 14}
    BY BitsByPower DEF Power
  <2>2. BitsOf(\h7CBD) = {0, 2, 3, 4, 5, 7, 10, 11, 12, 13, 14}
    BY BitsByPower DEF Power
  <2> QED
    BY <2>1, <2>2 DEF crc_table, Halves
<1>15. crc_table[15] = {0, 1, 2, 8, 10, 11, 13, 19, 20, 21, 23, 24, 25, 26, 29, 30, 31}
  <2>1. BitsOf(\hE7B8) = {3, 4, 5, 7, 8, 9, 10, 13, 14, 15}
    BY BitsByPower DEF Power
  <2>2. BitsOf(\h2D07) = {0, 1, 2, 8, 10, 11, 13}
    BY BitsByPower DEF Power
  <2> QED
    BY <2>1, <2>2 DEF crc_table, Halves
<1>16. crc_table[16] = {0, 4, 7, 8, 10, 11, 12, 16, 17, 18, 19, 20, 21, 23, 28, 31}
  <2>1. BitsOf(\h90BF) = {0, 1, 2, 3, 4, 5, 7, 12, 15}
    BY BitsByPower DEF Power
  <2>2. BitsOf(\h1D91) = {0, 4, 7, 8, 10, 11, 12}
    BY BitsByPower DEF Power
  <2> QED
    BY <2>1, <2>2 DEF crc_table, Halves
<1> QED
  BY <1>1, <1>2, <1>3, <1>4, <1>5, <1>6, <1>7, <1>8, <1>9, <1>10, <1>11, <1>12, <1>13,
     <1>14, <1>15, <1>16

\* What is left of a one in each of the low four bits after eight divisions.
DividedTwice(word) == Divided(Divided(word))
Divided4(word) == DividedTwice(DividedTwice(word))
Divided8(word) == Divided4(Divided4(word))

LEMMA SingleBits ==
  /\ Divided8({}) = {}
  /\ Divided8({0}) = crc_table[2]
  /\ Divided8({1}) = crc_table[3]
  /\ Divided8({2}) = crc_table[5]
  /\ Divided8({3}) = crc_table[9]
<1> DEFINE q1 == {4, 7, 8, 14, 18, 19, 20, 22, 23, 25, 26, 28, 29, 30}
           q2 == {3, 6, 7, 13, 17, 18, 19, 21, 22, 24, 25, 27, 28, 29}
           q3 == {2, 5, 6, 12, 16, 17, 18, 20, 21, 23, 24, 26, 27, 28}
<1>1. Divided({}) = {} /\ Divided({1}) = {0} /\ Divided({2}) = {1} /\ Divided({3}) = {2}
  BY DEF Divided, ShiftRight, SymDiff
<1>2. Divided({0}) = Polynomial
  BY PolynomialBits DEF Divided, ShiftRight, SymDiff
<1>3. Divided(Polynomial) = q1
  BY PolynomialBits DEF Divided, ShiftRight, SymDiff
<1>4. Divided(q1) = q2
  BY PolynomialBits, TableBits DEF Divided, ShiftRight, SymDiff
<1>5. Divided(q2) = q3
  BY PolynomialBits, TableBits DEF Divided, ShiftRight, SymDiff
<1>6. Divided(q3) = crc_table[9]
  BY PolynomialBits, TableBits DEF Divided, ShiftRight, SymDiff
<1>7. Divided(crc_table[9]) = crc_table[5]
  BY PolynomialBits, TableBits DEF Divided, ShiftRight, SymDiff
<1>8. Divided(crc_table[5]) = crc_table[3]
  BY PolynomialBits, TableBits DEF Divided, ShiftRight, SymDiff
<1>9. Divided(crc_table[3]) = crc_table[2]
  BY PolynomialBits, TableBits DEF Divided, ShiftRight, SymDiff
<1> HIDE DEF q1, q2, q3
<1> QED
  BY <1>1, <1>2, <1>3, <1>4, <1>5, <1>6, <1>7, <1>8, <1>9 DEF Divided8, Divided4, DividedTwice

\* Dividing is linear: exclusive or goes through it.
LEMMA DividedLinear ==
  ASSUME NEW u, NEW v
  PROVE  Divided(SymDiff(u, v)) = SymDiff(Divided(u), Divided(v))
<1>1. ShiftRight(SymDiff(u, v), 1) = SymDiff(ShiftRight(u, 1), ShiftRight(v, 1))
  BY DEF ShiftRight, SymDiff
<1>2. 0 \in SymDiff(u, v) <=> ~(0 \in u <=> 0 \in v)
  BY DEF SymDiff
<1> QED
  BY <1>1, <1>2 DEF Divided, SymDiff

LEMMA Divided8Linear ==
  ASSUME NEW u, NEW v
  PROVE  Divided8(SymDiff(u, v)) = SymDiff(Divided8(u), Divided8(v))
<1>1. \A x, y : DividedTwice(SymDiff(x, y)) = SymDiff(DividedTwice(x), DividedTwice(y))
  BY DividedLinear DEF DividedTwice
<1>2. \A x, y : Divided4(SymDiff(x, y)) = SymDiff(Divided4(x), Divided4(y))
  BY <1>1 DEF Divided4
<1> QED
  BY <1>2 DEF Divided8

\* A word whose low byte is zero is only shifted.
LEMMA HighBits ==
  ASSUME NEW word \in Word, word \cap (0 .. 7) = {}
  PROVE  Divided8(word) = ShiftRight(word, 8)
<1>1. \A n \in 0 .. 7 : Divided(ShiftRight(word, n)) = ShiftRight(word, n + 1)
  <2> SUFFICES ASSUME NEW n \in 0 .. 7
               PROVE  Divided(ShiftRight(word, n)) = ShiftRight(word, n + 1)
    OBVIOUS
  <2>1. 0 \notin ShiftRight(word, n)
    BY DEF ShiftRight
  <2>2. ShiftRight(ShiftRight(word, n), 1) = ShiftRight(word, n + 1)
    BY DEF ShiftRight, Word
  <2> QED
    BY <2>1, <2>2 DEF Divided
<1>2. ShiftRight(word, 0) = word
  <2>1. word \subseteq 0 .. 31 /\ ShiftRight(word, 0) = {i \in 0 .. 31 : i \in word}
    BY DEF ShiftRight, Word
  <2> QED
    BY <2>1
<1>3. Divided4(word) = ShiftRight(word, 4)
  BY <1>1, <1>2 DEF Divided4, DividedTwice
<1>4. Divided4(ShiftRight(word, 4)) = ShiftRight(word, 8)
  BY <1>1 DEF Divided4, DividedTwice
<1> QED
  BY <1>3, <1>4 DEF Divided8

\* The entries of the table are sums of the entries for a single bit.
LEMMA TableLinear ==
  /\ crc_table[4] = SymDiff(crc_table[3], crc_table[2])
  /\ \A k \in 2 .. 4 : crc_table[k + 4] = SymDiff(crc_table[5], crc_table[k])
  /\ \A k \in 2 .. 8 : crc_table[k + 8] = SymDiff(crc_table[9], crc_table[k])
<1>1. crc_table[4] = SymDiff(crc_table[3], crc_table[2])
  BY TableBits DEF SymDiff
<1>2. crc_table[6] = SymDiff(crc_table[5], crc_table[2])
  BY TableBits DEF SymDiff
<1>3. crc_table[7] = SymDiff(crc_table[5], crc_table[3])
  BY TableBits DEF SymDiff
<1>4. crc_table[8] = SymDiff(crc_table[5], crc_table[4])
  BY TableBits DEF SymDiff
<1>5. crc_table[10] = SymDiff(crc_table[9], crc_table[2])
  BY TableBits DEF SymDiff
<1>6. crc_table[11] = SymDiff(crc_table[9], crc_table[3])
  BY TableBits DEF SymDiff
<1>7. crc_table[12] = SymDiff(crc_table[9], crc_table[4])
  BY TableBits DEF SymDiff
<1>8. crc_table[13] = SymDiff(crc_table[9], crc_table[5])
  BY TableBits DEF SymDiff
<1>9. crc_table[14] = SymDiff(crc_table[9], crc_table[6])
  BY TableBits DEF SymDiff
<1>10. crc_table[15] = SymDiff(crc_table[9], crc_table[7])
  BY TableBits DEF SymDiff
<1>11. crc_table[16] = SymDiff(crc_table[9], crc_table[8])
  BY TableBits DEF SymDiff
<1> QED
  BY <1>1, <1>2, <1>3, <1>4, <1>5, <1>6, <1>7, <1>8, <1>9, <1>10, <1>11

\* An entry the table has is what its index leaves after eight divisions.
LEMMA EntryRight ==
  ASSUME NEW index \in SUBSET (0 .. 3) PROVE Divided8(index) = Entry(index)
<1> DEFINE One(i) == IF i \in index THEN {i} ELSE {}
           Part(i) == IF i \in index THEN Divided8({i}) ELSE {}
<1>1. index = SymDiff(SymDiff(One(3), One(2)), SymDiff(One(1), One(0)))
  <2>1. \A i \in 0 .. 3 : One(i) = index \cap {i}
    OBVIOUS
  <2>2. SymDiff(One(3), One(2)) = index \cap {2, 3}
    BY <2>1 DEF SymDiff
  <2>3. SymDiff(One(1), One(0)) = index \cap {0, 1}
    BY <2>1 DEF SymDiff
  <2>4. \A i : i \in index => i \in {0, 1, 2, 3}
    OBVIOUS
  <2>5. index = SymDiff(index \cap {2, 3}, index \cap {0, 1})
    BY <2>4 DEF SymDiff
  <2> QED
    BY <2>2, <2>3, <2>5
<1>2. \A i \in 0 .. 3 : Divided8(One(i)) = Part(i)
  BY SingleBits
<1>3. Divided8(index) = SymDiff(SymDiff(Part(3), Part(2)), SymDiff(Part(1), Part(0)))
  <2> HIDE DEF One, Part
  <2> QED
    BY <1>1, <1>2, Divided8Linear
<1>4. \A u : SymDiff(u, {}) = u /\ SymDiff({}, u) = u
  BY DEF SymDiff
<1>5. \A u, v, w : SymDiff(SymDiff(u, v), w) = SymDiff(u, SymDiff(v, w))
  BY DEF SymDiff
<1>6. crc_table[1] = {}
  BY TableBits
<1>7. InTable(index) /\ Entry(index) = crc_table[Nibble(index) + 1]
  BY DEF InTable, Entry
<1>8. CASE 3 \notin index /\ 2 \notin index
  BY <1>8, <1>3, <1>4, <1>6, <1>7, SingleBits, TableLinear DEF Nibble
<1>9. CASE 3 \notin index /\ 2 \in index
  BY <1>9, <1>3, <1>4, <1>6, <1>7, SingleBits, TableLinear DEF Nibble
<1>10. CASE 3 \in index /\ 2 \notin index
  BY <1>10, <1>3, <1>4, <1>6, <1>7, SingleBits, TableLinear DEF Nibble
<1>11. CASE 3 \in index /\ 2 \in index
  BY <1>11, <1>3, <1>4, <1>5, <1>6, <1>7, SingleBits, TableLinear DEF Nibble
<1> QED
  BY <1>8, <1>9, <1>10, <1>11

\* A byte whose lookup hits is folded in as the register of CRC-32 does it, bit by bit.
LEMMA StepRight ==
  ASSUME NEW word \in Word, NEW byte \in SUBSET (0 .. 7), InTable(Index(word, byte))
  PROVE  Step(word, byte) = ByBits(word, byte)
<1> DEFINE x == SymDiff(word, byte)
           index == Index(word, byte)
           high == {i \in x : i \notin 0 .. 7}
<1>1. x \in Word /\ index = x \cap (0 .. 7) /\ index \in SUBSET (0 .. 3)
  BY DEF Word, SymDiff, Index, InTable
<1>2. high \in Word /\ high \cap (0 .. 7) = {}
  BY <1>1 DEF Word
<1>3. x = SymDiff(index, high)
  BY <1>1 DEF SymDiff
<1>4. ShiftRight(high, 8) = ShiftRight(word, 8)
  BY DEF ShiftRight, SymDiff
<1>5. Divided8(x) = SymDiff(Entry(index), ShiftRight(word, 8))
  <2> HIDE DEF x, index, high
  <2>1. Divided8(x) = SymDiff(Divided8(index), Divided8(high))
    BY <1>3, Divided8Linear
  <2>2. Divided8(index) = Entry(index)
    BY <1>1, EntryRight
  <2>3. Divided8(high) = ShiftRight(word, 8)
    BY <1>2, <1>4, HighBits
  <2> QED
    BY <2>1, <2>2, <2>3
<1>6. ByBits(word, byte) = Divided8(x)
  <2> DEFINE Defines(f) == f = [n \in 0 .. 8 |-> IF n = 0 THEN x ELSE Divided(f[n - 1])]
             after == CHOOSE f : Defines(f)
             x1 == Divided(x)
             x2 == Divided(x1)
             x3 == Divided(x2)
             x4 == Divided(x3)
             x5 == Divided(x4)
             x6 == Divided(x5)
             x7 == Divided(x6)
             g == [n \in 0 .. 8 |->
                     IF n = 0 THEN x ELSE IF n = 1 THEN x1 ELSE IF n = 2 THEN x2 ELSE
                     IF n = 3 THEN x3 ELSE IF n = 4 THEN x4 ELSE IF n = 5 THEN x5 ELSE
                     IF n = 6 THEN x6 ELSE IF n = 7 THEN x7 ELSE Divided(x7)]
  <2>1. ByBits(word, byte) = after[8]
    BY DEF ByBits
  <2>2. Defines(g)
    <3> DEFINE h == [n \in 0 .. 8 |-> IF n = 0 THEN x ELSE Divided(g[n - 1])]
    <3>1. \A n \in 0 .. 8 : g[n] = h[n]
      <4> HIDE DEF x
      <4> QED
        OBVIOUS
    <3> QED
      BY <3>1
  <2>3. Defines(after)
    <3> HIDE DEF Defines, g
    <3> QED
      BY <2>2
  <2>4. /\ after[0] = x
        /\ \A n \in 1 .. 8 : after[n] = Divided(after[n - 1])
    <3> HIDE DEF after, x
    <3> QED
      BY <2>3
  <2> HIDE DEF after, x
  <2>5. /\ after[1] = Divided(after[0]) /\ after[2] = Divided(after[1])
        /\ after[3] = Divided(after[2]) /\ after[4] = Divided(after[3])
        /\ after[5] = Divided(after[4]) /\ after[6] = Divided(after[5])
        /\ after[7] = Divided(after[6]) /\ after[8] = Divided(after[7])
    BY <2>4
  <2> QED
    BY <2>1, <2>4, <2>5 DEF Divided8, Divided4, DividedTwice
<1> QED
  BY <1>5, <1>6 DEF Step

\* f gives the values the message takes the register through.
IsReference(f) ==
  f = [n \in 0 .. Len(message) |-> IF n = 0 THEN initial ELSE ByBits(f[n - 1], message[n])]

\* No byte of the message looks past the table on its way through f.
StaysInTable(f) == \A n \in 1 .. Len(message) : InTable(Index(f[n - 1], message[n]))

\* Of every such function, and there is one: the value returned is its last.
ReferenceInv ==
  /\ message \in Seq(SUBSET (0 .. 7))
  /\ crc \in Word
  /\ \E f : IsReference(f)
  /\ \A f : IsReference(f) /\ StaysInTable(f) => crc = f[Len(message)]

LEMMA StepReference ==
  ASSUME ReferenceInv, MM_CalculateCRC32 PROVE ReferenceInv'
<1> DEFINE n == Len(message)
<1>1. PICK byte \in SUBSET (0 .. 7) :
        /\ crc' = Step(crc, byte)
        /\ message' = Append(message, byte)
        /\ initial' = initial
  BY CrcAssumption DEF MM_CalculateCRC32
<1>2. /\ n \in Nat /\ message' \in Seq(SUBSET (0 .. 7)) /\ Len(message') = n + 1
      /\ message'[n + 1] = byte
      /\ \A i \in 1 .. n : message'[i] = message[i]
  BY <1>1 DEF ReferenceInv
<1>3. crc' \in Word
  <2>1. Entry(Index(crc, byte)) \subseteq 0 .. 31
    BY EntryWord DEF Word
  <2>2. ShiftRight(crc, 8) \subseteq 0 .. 31
    BY DEF ShiftRight
  <2> QED
    BY <1>1, <2>1, <2>2 DEF Step, SymDiff, Word
<1>4. \E f : IsReference(f)'
  <2>1. PICK g : IsReference(g)
    BY DEF ReferenceInv
  <2> DEFINE f == [i \in 0 .. n + 1 |-> IF i = n + 1 THEN ByBits(g[n], byte) ELSE g[i]]
             h == [i \in 0 .. n + 1 |-> IF i = 0 THEN initial ELSE ByBits(f[i - 1], message'[i])]
  <2>2. g[0] = initial /\ \A i \in 1 .. n : g[i] = ByBits(g[i - 1], message[i])
    BY <2>1, <1>2 DEF IsReference
  <2>3. \A i \in 0 .. n + 1 : f[i] = h[i]
    BY <2>2, <1>2
  <2>4. f = h
    BY <2>3
  <2> QED
    BY <2>4, <1>1, <1>2 DEF IsReference
<1>5. ASSUME NEW f, IsReference(f)', StaysInTable(f)' PROVE crc' = f[Len(message')]
  <2> DEFINE g == [i \in 0 .. n |-> f[i]]
             h == [i \in 0 .. n |-> IF i = 0 THEN initial ELSE ByBits(g[i - 1], message[i])]
  <2>1. f[0] = initial /\ \A i \in 1 .. n + 1 : f[i] = ByBits(f[i - 1], message'[i])
    <3>1. f = [i \in 0 .. n + 1 |->
                 IF i = 0 THEN initial ELSE ByBits(f[i - 1], message'[i])]
      BY <1>5, <1>1, <1>2 DEF IsReference
    <3>2. 0 \in 0 .. n + 1 /\ \A i \in 1 .. n + 1 : i \in 0 .. n + 1 /\ i # 0
      BY <1>2
    <3> HIDE DEF n
    <3> QED
      BY <3>1, <3>2
  <2>2. \A i \in 0 .. n : g[i] = h[i]
    BY <2>1, <1>2
  <2>3. IsReference(g)
    BY <2>2 DEF IsReference
  <2>4. \A i \in 1 .. n + 1 : InTable(Index(f[i - 1], message'[i]))
    BY <1>5, <1>2 DEF StaysInTable
  <2>5. StaysInTable(g)
    BY <2>4, <1>2 DEF StaysInTable
  <2>6. crc = f[n]
    BY <2>3, <2>5, <1>2 DEF ReferenceInv
  <2>7. InTable(Index(crc, byte)) /\ f[n + 1] = ByBits(crc, byte)
    <3>1. (n + 1) - 1 = n /\ n + 1 \in 1 .. n + 1
      BY <1>2
    <3> QED
      BY <3>1, <2>1, <2>4, <2>6, <1>2
  <2> QED
    BY <2>7, <1>1, <1>2, StepRight DEF ReferenceInv
<1> QED
  BY <1>2, <1>3, <1>4, <1>5 DEF ReferenceInv

\* The value is that of the register of CRC-32, whatever the initial value and however long the
\* message, as long as no byte of it looks past the 16 entries the table has.
THEOREM RightInTable == CrcSpec => []RightWhileInTable
<1>1. CrcInit => ReferenceInv
  <2> SUFFICES ASSUME CrcInit PROVE ReferenceInv
    OBVIOUS
  <2>1. message = << >> /\ Len(message) = 0 /\ message \in Seq(SUBSET (0 .. 7))
    BY DEF CrcInit
  <2>2. crc = initial /\ crc \in Word
    BY CrcAssumption DEF CrcInit
  <2> DEFINE g == [n \in 0 .. 0 |-> initial]
  <2>3. IsReference(g)
    BY <2>1 DEF IsReference
  <2>4. \A f : IsReference(f) => f[0] = initial
    BY <2>1 DEF IsReference
  <2> QED
    BY <2>1, <2>2, <2>3, <2>4 DEF ReferenceInv
<1>2. ReferenceInv /\ [CrcNext]_crcVars => ReferenceInv'
  <2> SUFFICES ASSUME ReferenceInv, [CrcNext]_crcVars PROVE ReferenceInv'
    OBVIOUS
  <2>1. CASE CrcNext
    BY <2>1, StepReference DEF CrcNext
  <2>2. CASE UNCHANGED crcVars
    BY <2>2 DEF crcVars, ReferenceInv, IsReference, StaysInTable
  <2> QED
    BY <2>1, <2>2
<1>3. ReferenceInv => RightWhileInTable
  <2> SUFFICES ASSUME ReferenceInv PROVE RightWhileInTable
    OBVIOUS
  <2>1. Reference = CHOOSE f : IsReference(f)
    BY DEF Reference, IsReference
  <2>2. IsReference(Reference)
    BY <2>1 DEF ReferenceInv
  <2>3. StaysInTable(Reference) => crc = Reference[Len(message)]
    BY <2>2 DEF ReferenceInv
  <2> QED
    BY <2>3 DEF RightWhileInTable, StaysInTable
<1> QED
  BY <1>1, <1>2, <1>3, PTL DEF CrcSpec

=============================================================================
