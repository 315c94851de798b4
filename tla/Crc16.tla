------------------------------- MODULE Crc16 --------------------------------
(***************************************************************************)
(* oomwoo_crc16_ccitt_false: CRC-16/CCITT-FALSE, polynomial 0x1021, initial*)
(* value 0xffff, most significant bit first.  The firmware's Crc: the      *)
(* modules above the frame layout leave it open.                           *)
(*                                                                         *)
(* A number is kept as its bits, number 0 the least significant, since     *)
(* every operation of the loop is a shift or an exclusive or.              *)
(***************************************************************************)
EXTENDS Integers, Sequences

Bit == {0, 1}

Register == [0..15 -> Bit]

Xor(a, b) == IF a = b THEN 0 ELSE 1

\* Bit i of a byte.
BitOf(byte, i) == (byte \div <<1, 2, 4, 8, 16, 32, 64, 128>>[i + 1]) % 2

\* The value of the eight bits of crc from bit k on.
OctetAt(crc, k) ==
  crc[k] + 2 * crc[k + 1] + 4 * crc[k + 2] + 8 * crc[k + 3] + 16 * crc[k + 4]
    + 32 * crc[k + 5] + 64 * crc[k + 6] + 128 * crc[k + 7]

\* crc ^= byte << 8.
TakeIn(crc, byte) ==
  [i \in 0..15 |-> IF i < 8 THEN crc[i] ELSE Xor(crc[i], BitOf(byte, i - 8))]

\* One bit: a shift to the left, and 0x1021 if a one fell out.
CrcBit[crc \in Register] ==
  [i \in 0..15 |-> CASE i = 0       -> crc[15]
                     [] i \in {5, 12} -> Xor(crc[i - 1], crc[15])
                     [] OTHER       -> crc[i - 1]]

EightBits[crc \in Register] ==
  CrcBit[CrcBit[CrcBit[CrcBit[CrcBit[CrcBit[CrcBit[CrcBit[crc]]]]]]]]

CrcByte(crc, byte) == EightBits[TakeIn(crc, byte)]

\* 0xffff.
Crc16Start == [i \in 0..15 |-> 1]

\* The loop over the bytes: the register after each prefix of s.
Registers(s) ==
  LET after[n \in 0..Len(s)] ==
        IF n = 0 THEN Crc16Start ELSE CrcByte(after[n - 1], s[n])
  IN  after

Crc16Ccitt(s) ==
  LET crc == Registers(s)[Len(s)]
  IN  OctetAt(crc, 0) + 256 * OctetAt(crc, 8)

\* The check value for the ASCII digits 1 to 9 (test_protocol/test_main.cpp:64).
ASSUME CheckValue == Crc16Ccitt([i \in 1..9 |-> 48 + i]) = 10673
=============================================================================
