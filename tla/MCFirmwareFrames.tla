-------------------------- MODULE MCFirmwareFrames --------------------------
(***************************************************************************)
(* The decoder with the firmware's own frame geometry and CRC.  The line   *)
(* carries one frame, some copies of it damaged in one byte.               *)
(***************************************************************************)
EXTENDS Reception, Crc16

MCByte == 0..255

\* The CRC as oomwoo_encode_frame writes it.
MCCrc(s) == WriteU16(Crc16Ccitt(s))

\* IDENTIFY_REQUEST (type 0x0004), sequence 1, no payload.
Sent == EncodeFrame(<<0, 1, 0, 4, 0>>, <<>>)

\* A frame of no known type that carries the whole of Sent as its payload.
Carrier == EncodeFrame(<<0, 1, 0, 96, 0>>, Sent)

\* The frame, with one byte replaced by a value that means something to the
\* decoder (zero, the length of one more frame, a piece of the magic), or cut
\* short by lost bytes; and the carrier, whole and damaged.
OneDamage ==
  {Sent} \cup {[Sent EXCEPT ![i] = v] : i \in DOMAIN Sent,
                                        v \in {0, 12, 79, 87}}
         \cup {SubSeq(Sent, 1, n) : n \in {2, 9, 11}}
         \cup {[Sent EXCEPT ![9] = 1], Carrier, [Carrier EXCEPT ![24] = 0]}

\* The frame, and the frame with a length field that claims 40 bytes of payload.
LengthDamage == {Sent, [Sent EXCEPT ![9] = 40]}

\* The CRC and the header checks let nothing through that was not sent:
\* neither a damaged frame nor a frame put together from two of them.
OnlySentFrames == \A i \in DOMAIN delivered : delivered[i] \in {Sent, Carrier}

\* A complete valid frame stands somewhere in b.
HoldsFrame(b) ==
  \E i \in 1..Len(b) :
    LET s == SubSeq(b, i, Len(b))
    IN  /\ Len(s) >= HeaderSize + CrcSize
        /\ FrameLength(s) <= Len(s)
        /\ DecodeResult(SubSeq(s, 1, FrameLength(s))) = "OK"

\* docs/protocol-bringup.md:123, "Valid frame after corruption: resynchronize
\* and invoke the callback once": giving up on a corrupted candidate does not
\* throw away a valid frame received behind it.
ValidFrameSurvivesReset ==
  [][stats'.gap_resets # stats.gap_resets => ~HoldsFrame(buffer)]_vars
=============================================================================
