----------------------------- MODULE WireFormat -----------------------------
(***************************************************************************)
(* The OW frame of the CPU/MCU link (oomwoo_protocol.h, oomwoo_protocol.c):*)
(*                                                                         *)
(*   magic0 magic1 version | flags sequence type | length | payload | crc  *)
(*                                                                         *)
(* The middle fields are opaque to the framing layer, so a frame here is a *)
(* byte sequence whose header has HeaderSize bytes, the last two being the *)
(* little-endian payload length.  The firmware has HeaderSize = 10,        *)
(* CrcSize = 2, MaxPayload = 512 and ByteBase = 256; smaller values keep   *)
(* the layout and shrink it.                                               *)
(***************************************************************************)
EXTENDS Integers, Sequences

CONSTANTS
  Byte,             \* the byte values of the instance
  ByteBase,         \* 256 in the firmware: one more than the largest byte
  Magic0, Magic1,   \* 'O' and 'W'
  ProtocolVersion,  \* OOMWOO_PROTOCOL_VERSION
  HeaderSize, CrcSize, MaxPayload,
  Crc(_)            \* a byte sequence to its CRC, as written on the wire

ASSUME WireAssumption ==
  /\ ByteBase \in Nat \ {0}
  /\ Byte \subseteq 0..(ByteBase - 1)
  /\ {Magic0, Magic1, ProtocolVersion} \subseteq Byte
  /\ HeaderSize \in Nat /\ HeaderSize >= 5
  /\ CrcSize \in Nat \ {0}
  /\ MaxPayload \in Nat
  /\ MaxPayload < ByteBase * ByteBase      \* a payload length fits its field

MaxFrame == HeaderSize + MaxPayload + CrcSize

\* The u16 whose low byte is the i-th byte of s.
ReadU16(s, i) == s[i] + ByteBase * s[i + 1]

WriteU16(v) == <<v % ByteBase, (v \div ByteBase) % ByteBase>>

HasMagic(s) == s[1] = Magic0 /\ s[2] = Magic1

PayloadLength(s) == ReadU16(s, HeaderSize - 1)

FrameLengthShort(s) == HeaderSize + PayloadLength(s)   \* mutant: no CRC

FrameLength(s) == HeaderSize + PayloadLength(s) + CrcSize

\* The CRC field of a frame: what write_u16_le leaves of the CRC of its body.
FrameCrc(body) == SubSeq(Crc(body), 1, CrcSize)

\* The result code of oomwoo_encode_frame.
EncodeFrameResult(payloadLength, capacity) ==
  IF payloadLength > MaxPayload THEN "PAYLOAD_TOO_LARGE"
  ELSE IF capacity < HeaderSize + payloadLength + CrcSize THEN "OUTPUT_TOO_SMALL"
  ELSE "OK"

\* The frame it writes when that is "OK": `fields` are the flags, sequence and
\* type bytes.
EncodeFrame(fields, payload) ==
  LET body == <<Magic0, Magic1, ProtocolVersion>> \o fields
                \o WriteU16(Len(payload)) \o payload
  IN  body \o FrameCrc(body)

DecodeResultNoCrc(s) ==                           \* mutant: CRC not compared
  IF Len(s) >= HeaderSize + CrcSize /\ HasMagic(s) /\ s[3] = ProtocolVersion
     /\ PayloadLength(s) <= MaxPayload /\ Len(s) = FrameLength(s)
  THEN "OK" ELSE "LENGTH_MISMATCH"

\* The result code of oomwoo_decode_frame, its early returns in source order.
DecodeResult(s) ==
  IF Len(s) < HeaderSize + CrcSize THEN "FRAME_TOO_SHORT"
  ELSE IF ~HasMagic(s)             THEN "BAD_MAGIC"
  ELSE IF s[3] # ProtocolVersion   THEN "BAD_VERSION"
  ELSE IF PayloadLength(s) > MaxPayload THEN "PAYLOAD_TOO_LARGE"
  ELSE IF Len(s) # FrameLength(s)  THEN "LENGTH_MISMATCH"
  ELSE IF SubSeq(s, Len(s) - CrcSize + 1, Len(s))
            # FrameCrc(SubSeq(s, 1, Len(s) - CrcSize)) THEN "BAD_CRC"
  ELSE "OK"
=============================================================================
