----------------------------- MODULE CodecProofs -----------------------------
(***************************************************************************)
(* Lemmas about the two codecs.  Of a frame: what the encoder leaves in it *)
(* byte by byte, for every geometry and every CRC.  Of a payload: that     *)
(* decoding undoes encoding and encoding undoes decoding, for every value  *)
(* of every field and whatever the encoder's buffer held before.  Of the   *)
(* firmware's CRC: which damage it cannot miss.                            *)
(***************************************************************************)
EXTENDS WireFormat, MessageCodec, Crc16, TLAPS, SequenceTheorems,
        WellFoundedInduction

(***************************************************************************)
(* Frames.                                                                 *)
(***************************************************************************)
\* The frame's bytes before its CRC.
BodyOf(fields, payload) ==
  <<Magic0, Magic1, ProtocolVersion>> \o fields
    \o WriteU16(Len(payload)) \o payload

LEMMA JoinedLength ==
  ASSUME NEW S, NEW s \in Seq(S), NEW t \in Seq(S)
  PROVE  /\ s \o t \in Seq(S)
         /\ Len(s \o t) = Len(s) + Len(t)
         /\ Len(s) \in Nat /\ Len(t) \in Nat
  BY ConcatProperties, LenProperties

\* The elements of a concatenation, left and right of the seam.
LEMMA LeftPart ==
  ASSUME NEW S, NEW s \in Seq(S), NEW t \in Seq(S), NEW j \in 1..Len(s)
  PROVE  (s \o t)[j] = s[j]
  BY ConcatProperties, LenProperties

LEMMA RightPart ==
  ASSUME NEW S, NEW s \in Seq(S), NEW t \in Seq(S), NEW i \in 1..Len(t),
         NEW j, j = Len(s) + i
  PROVE  (s \o t)[j] = t[i]
  <1>1. j \in 1..(Len(s) + Len(t)) /\ ~(j <= Len(s)) /\ j - Len(s) = i
    BY LenProperties
  <1>2. (s \o t)[j] = t[j - Len(s)]
    BY <1>1, ConcatProperties
  <1> QED
    BY <1>1, <1>2

\* Where each part of a frame stands.
LaidOut(body, fields, payload) ==
  /\ Len(body) = 5 + Len(fields) + Len(payload)
  /\ body[1] = Magic0 /\ body[2] = Magic1 /\ body[3] = ProtocolVersion
  /\ \A i \in 1..Len(fields) : \A j \in Nat : j = 3 + i => body[j] = fields[i]
  /\ body[4 + Len(fields)] = Len(payload) % ByteBase
  /\ body[5 + Len(fields)] = (Len(payload) \div ByteBase) % ByteBase
  /\ \A i \in 1..Len(payload) : \A j \in Nat :
       j = 5 + Len(fields) + i => body[j] = payload[i]

\* S holds whatever the fields and the payload are made of.
LEMMA BodyLayout ==
  ASSUME NEW S, NEW fields \in Seq(S), NEW payload \in Seq(S)
  PROVE  /\ BodyOf(fields, payload) \in Seq(S \cup Int)
         /\ LaidOut(BodyOf(fields, payload), fields, payload)
  <1> DEFINE T == S \cup Int
             head == <<Magic0, Magic1, ProtocolVersion>>
             size == WriteU16(Len(payload))
             n == Len(fields)
  <1>1. n \in Nat /\ Len(payload) \in Nat
    BY LenProperties
  <1>2. /\ Magic0 \in Int /\ Magic1 \in Int /\ ProtocolVersion \in Int
        /\ ByteBase \in Nat \ {0}
    <2>1. Byte \subseteq Int
      BY WireAssumption
    <2> QED
      BY <2>1, WireAssumption
  <1>3. /\ head \in Seq(T) /\ Len(head) = 3
        /\ head[1] = Magic0 /\ head[2] = Magic1 /\ head[3] = ProtocolVersion
    BY <1>2
  <1>4. /\ size \in Seq(T) /\ Len(size) = 2
        /\ size[1] = Len(payload) % ByteBase
        /\ size[2] = (Len(payload) \div ByteBase) % ByteBase
    BY <1>1, <1>2 DEF WriteU16
  <1>5. fields \in Seq(T) /\ payload \in Seq(T)
    <2>1. S \subseteq T
      OBVIOUS
    <2> QED
      BY <2>1, SeqMonotonic
  <1> HIDE DEF T, head, size, n
  <1>len. /\ Len(fields) = n
          /\ head \in Seq(T) /\ Len(head) = 3
          /\ size \in Seq(T) /\ Len(size) = 2
    BY <1>3, <1>4 DEF n
  <1>6. /\ head \o fields \in Seq(T) /\ Len(head \o fields) = 3 + n
        /\ head \o fields \o size \in Seq(T)
        /\ Len(head \o fields \o size) = 5 + n
        /\ head \o fields \o size \o payload \in Seq(T)
        /\ Len(head \o fields \o size \o payload) = 5 + n + Len(payload)
    <2>1. /\ head \o fields \in Seq(T)
          /\ Len(head \o fields) = 3 + n
      BY <1>5, <1>len, JoinedLength
    <2>2. /\ head \o fields \o size \in Seq(T)
          /\ Len(head \o fields \o size) = 5 + n
      <3>1. /\ head \o fields \o size \in Seq(T)
            /\ Len(head \o fields \o size) = Len(head \o fields) + Len(size)
        BY <1>len, <2>1, JoinedLength
      <3> QED
        BY <1>1, <1>len, <2>1, <3>1
    <2>3. /\ head \o fields \o size \o payload \in Seq(T)
          /\ Len(head \o fields \o size \o payload) = 5 + n + Len(payload)
      BY <1>1, <1>5, <2>2, JoinedLength
    <2> QED
      BY <2>1, <2>2, <2>3
  <1> DEFINE body == head \o fields \o size \o payload
  <1>7. ASSUME NEW j \in 1..(3 + n)
        PROVE  body[j] = (head \o fields)[j]
    <2>1. j \in 1..(5 + n)
      BY <1>1
    <2>2. body[j] = (head \o fields \o size)[j]
      BY <1>5, <1>6, <2>1, LeftPart
    <2>3. (head \o fields \o size)[j] = (head \o fields)[j]
      <3> DEFINE left == head \o fields
      <3>1. left \in Seq(T) /\ size \in Seq(T) /\ j \in 1..Len(left)
        BY <1>6, <1>len
      <3> HIDE DEF left
      <3>2. (left \o size)[j] = left[j]
        BY <3>1, LeftPart
      <3> QED
        BY <3>2 DEF left
    <2> QED
      BY <2>2, <2>3
  <1>8. ASSUME NEW i \in 1..3
        PROVE  body[i] = head[i]
    <2>1. (head \o fields)[i] = head[i]
      <3>1. i \in 1..Len(head)
        BY <1>len
      <3> QED
        BY <1>5, <1>len, <3>1, LeftPart
    <2>2. i \in 1..(3 + n)
      BY <1>1
    <2> QED
      BY <1>7, <2>1, <2>2
  <1>9. ASSUME NEW i \in 1..Len(fields), NEW j \in Nat, j = 3 + i
        PROVE  body[j] = fields[i]
    <2>1. j = Len(head) + i /\ j \in 1..(3 + n)
      BY <1>1, <1>9, <1>len
    <2>2. /\ head \in Seq(T) /\ fields \in Seq(T)
          /\ i \in 1..Len(fields) /\ j = Len(head) + i
      BY <1>5, <1>len, <2>1
    <2>3. (head \o fields)[j] = fields[i]
      BY <2>2, RightPart
    <2> QED
      BY <1>7, <2>1, <2>3
  <1>10. ASSUME NEW i \in 1..2, NEW j, j = 3 + n + i
         PROVE  body[j] = size[i]
    <2>1. (head \o fields \o size)[j] = size[i]
      BY <1>1, <1>6, <1>len, <1>10, RightPart
    <2>2. j \in 1..(5 + n)
      BY <1>1, <1>10
    <2>3. body[j] = (head \o fields \o size)[j]
      BY <1>5, <1>6, <2>2, LeftPart
    <2> QED
      BY <2>1, <2>3
  <1>11. body[4 + n] = size[1] /\ body[5 + n] = size[2]
    <2> DEFINE j == 4 + n
               k == 5 + n
    <2>1. j = 3 + n + 1 /\ k = 3 + n + 2 /\ 1 \in 1..2 /\ 2 \in 1..2
      BY <1>1
    <2> HIDE DEF j, k
    <2>2. body[j] = size[1] /\ body[k] = size[2]
      BY <1>10, <2>1
    <2> QED
      BY <2>2 DEF j, k
  <1>12. ASSUME NEW i \in 1..Len(payload), NEW j \in Nat, j = 5 + Len(fields) + i
         PROVE  body[j] = payload[i]
    <2> DEFINE before == head \o fields \o size
    <2>1. j = Len(before) + i
      BY <1>1, <1>6, <1>12, <1>len
    <2>2. /\ before \in Seq(T) /\ payload \in Seq(T) /\ body = before \o payload
          /\ i \in 1..Len(payload)
      BY <1>5, <1>6
    <2> HIDE DEF before, body
    <2>3. (before \o payload)[j] = payload[i]
      BY <2>1, <2>2, RightPart
    <2> QED
      BY <2>2, <2>3
  <1>13. BodyOf(fields, payload) = body
    BY DEF BodyOf, head, size
  <1>14. /\ Len(body) = 5 + Len(fields) + Len(payload)
         /\ body[1] = Magic0 /\ body[2] = Magic1 /\ body[3] = ProtocolVersion
         /\ body[4 + Len(fields)] = Len(payload) % ByteBase
         /\ body[5 + Len(fields)] = (Len(payload) \div ByteBase) % ByteBase
    <2> HIDE DEF body
    <2>1. Len(body) = 5 + n + Len(payload)
      BY <1>6 DEF body
    <2> QED
      BY <1>3, <1>4, <1>8, <1>11, <2>1 DEF n
  <1>15. body \in Seq(S \cup Int)
    BY <1>6 DEF T
  <1> HIDE DEF body
  <1>16. LaidOut(body, fields, payload)
    BY <1>9, <1>12, <1>14 DEF LaidOut
  <1> QED
    BY <1>13, <1>15, <1>16

\* The same piece by piece.
LEMMA BodyHeader ==
  ASSUME NEW S, NEW fields \in Seq(S), NEW payload \in Seq(S)
  PROVE  /\ BodyOf(fields, payload) \in Seq(S \cup Int)
         /\ Len(BodyOf(fields, payload)) = 5 + Len(fields) + Len(payload)
         /\ BodyOf(fields, payload)[1] = Magic0
         /\ BodyOf(fields, payload)[2] = Magic1
         /\ BodyOf(fields, payload)[3] = ProtocolVersion
         /\ BodyOf(fields, payload)[4 + Len(fields)] = Len(payload) % ByteBase
         /\ BodyOf(fields, payload)[5 + Len(fields)]
              = (Len(payload) \div ByteBase) % ByteBase
  <1>1. BodyOf(fields, payload) \in Seq(S \cup Int)
    BY BodyLayout
  <1>2. LaidOut(BodyOf(fields, payload), fields, payload)
    BY BodyLayout
  <1> QED
    BY <1>1, <1>2 DEF LaidOut

LEMMA FieldAt ==
  ASSUME NEW S, NEW fields \in Seq(S), NEW payload \in Seq(S),
         NEW i \in 1..Len(fields), NEW j \in Nat, j = 3 + i
  PROVE  BodyOf(fields, payload)[j] = fields[i]
  <1>1. LaidOut(BodyOf(fields, payload), fields, payload)
    BY BodyLayout
  <1> QED
    BY <1>1 DEF LaidOut

LEMMA PayloadAt ==
  ASSUME NEW S, NEW fields \in Seq(S), NEW payload \in Seq(S),
         NEW i \in 1..Len(payload), NEW j \in Nat, j = 5 + Len(fields) + i
  PROVE  BodyOf(fields, payload)[j] = payload[i]
  <1>1. LaidOut(BodyOf(fields, payload), fields, payload)
    BY BodyLayout
  <1> QED
    BY <1>1 DEF LaidOut

\* A frame is its body and CrcSize bytes of CRC.
Framed(frame, body) ==
  /\ \E T : frame \in Seq(T)
  /\ Len(frame) = Len(body) + CrcSize
  /\ \A i \in 1..Len(body) : frame[i] = body[i]

LEMMA FrameLayout ==
  ASSUME NEW S, NEW fields \in Seq(S), NEW payload \in Seq(S)
  PROVE  Framed(EncodeFrame(fields, payload), BodyOf(fields, payload))
  <1> DEFINE body == BodyOf(fields, payload)
             crc == FrameCrc(body)
             C == {Crc(body)[i] : i \in 1..CrcSize}
             T == (S \cup Int) \cup C
  <1>1. body \in Seq(S \cup Int) /\ CrcSize \in Nat \ {0}
    BY BodyLayout, WireAssumption
  <1>2. \A i \in 1..CrcSize : Crc(body)[i] \in C
    OBVIOUS
  <1>3. EncodeFrame(fields, payload) = body \o crc
    BY DEF EncodeFrame, BodyOf
  <1> HIDE DEF body, C
  <1>4. /\ crc \in Seq(C) /\ Len(crc) = CrcSize
        /\ \A i \in 1..CrcSize : crc[i] = Crc(body)[i]
    BY <1>1, <1>2, SubSeqProperties DEF FrameCrc
  <1> HIDE DEF crc
  <1>5. body \in Seq(T) /\ crc \in Seq(T) /\ Len(body) \in Nat
    <2>1. S \cup Int \subseteq T /\ C \subseteq T
      OBVIOUS
    <2> HIDE DEF T
    <2> QED
      BY <1>1, <1>4, <2>1, SeqMonotonic, LenProperties
  <1> HIDE DEF T
  <1>6. /\ body \o crc \in Seq(T)
        /\ Len(body \o crc) = Len(body) + CrcSize
    BY <1>4, <1>5, JoinedLength
  <1>7. \A i \in 1..Len(body) : (body \o crc)[i] = body[i]
    BY <1>5, LeftPart
  <1>8. Framed(body \o crc, body)
    BY <1>6, <1>7 DEF Framed
  <1> QED
    BY <1>3, <1>8 DEF body

\* The CRC field alone.
LEMMA CrcTyped ==
  ASSUME NEW b
  PROVE  \E C : FrameCrc(b) \in Seq(C) /\ Len(FrameCrc(b)) = CrcSize
  <1> DEFINE C == {Crc(b)[i] : i \in 1..CrcSize}
  <1>1. CrcSize \in Nat \ {0} /\ \A i \in 1..CrcSize : Crc(b)[i] \in C
    BY WireAssumption
  <1> HIDE DEF C
  <1>2. FrameCrc(b) \in Seq(C) /\ Len(FrameCrc(b)) = CrcSize
    BY <1>1, SubSeqProperties DEF FrameCrc
  <1> QED
    BY <1>2

\* The length of a payload, recovered from its two bytes.
LengthKept(payload) ==
  (Len(payload) % ByteBase)
    + ByteBase * ((Len(payload) \div ByteBase) % ByteBase) = Len(payload)

\* What oomwoo_encode_frame writes, oomwoo_decode_frame accepts, and its
\* payload stands between the header and the CRC.
LEMMA FrameDecodes ==
  ASSUME NEW S, NEW fields \in Seq(S), NEW payload \in Seq(S),
         Len(fields) = HeaderSize - 5, Len(payload) <= MaxPayload,
         LengthKept(payload)
  PROVE  LET frame == EncodeFrame(fields, payload)
         IN  /\ DecodeResult(frame) = "OK"
             /\ SubSeq(frame, HeaderSize + 1, Len(frame) - CrcSize) = payload
  <1> DEFINE body == BodyOf(fields, payload)
             crc == FrameCrc(body)
             frame == EncodeFrame(fields, payload)
             l == Len(payload)
             h == HeaderSize
  <1>1. /\ h \in Nat /\ h >= 5 /\ CrcSize \in Nat \ {0} /\ MaxPayload \in Nat
        /\ l \in Nat /\ Len(fields) = h - 5 /\ l <= MaxPayload
    BY WireAssumption, LenProperties
  <1>2. /\ body \in Seq(S \cup Int) /\ Len(body) = h + l
        /\ body[1] = Magic0 /\ body[2] = Magic1 /\ body[3] = ProtocolVersion
        /\ body[h - 1] = l % ByteBase
        /\ body[h] = (l \div ByteBase) % ByteBase
    <2>1. /\ BodyOf(fields, payload) \in Seq(S \cup Int)
          /\ Len(BodyOf(fields, payload)) = 5 + Len(fields) + Len(payload)
          /\ BodyOf(fields, payload)[1] = Magic0
          /\ BodyOf(fields, payload)[2] = Magic1
          /\ BodyOf(fields, payload)[3] = ProtocolVersion
          /\ BodyOf(fields, payload)[4 + Len(fields)] = Len(payload) % ByteBase
          /\ BodyOf(fields, payload)[5 + Len(fields)]
               = (Len(payload) \div ByteBase) % ByteBase
      BY BodyHeader
    <2>2. /\ 4 + Len(fields) = h - 1 /\ 5 + Len(fields) = h
          /\ 5 + Len(fields) + Len(payload) = h + l
      BY <1>1
    <2> HIDE DEF h
    <2> QED
      BY <2>1, <2>2
  <1>3. ASSUME NEW i \in 1..l
        PROVE  body[h + i] = payload[i]
    <2> DEFINE j == h + i
    <2>1. /\ j = 5 + Len(fields) + i /\ i \in 1..Len(payload) /\ j \in Nat
          /\ fields \in Seq(S) /\ payload \in Seq(S)
      BY <1>1
    <2> HIDE DEF j, h, l, crc, frame, body
    <2>2. BodyOf(fields, payload)[j] = payload[i]
      BY <2>1, PayloadAt
    <2> QED
      BY <2>2 DEF j, body
  <1>4. frame = body \o crc
    BY DEF EncodeFrame, BodyOf
  <1>5. PICK C : crc \in Seq(C) /\ Len(crc) = CrcSize
    BY CrcTyped
  <1> DEFINE T == (S \cup Int) \cup C
  <1> HIDE DEF body, crc, frame
  <1>6. body \in Seq(T) /\ crc \in Seq(T)
    <2>1. S \cup Int \subseteq T /\ C \subseteq T
      OBVIOUS
    <2> HIDE DEF T
    <2> QED
      BY <1>2, <1>5, <2>1, SeqMonotonic
  <1>payload. payload \in Seq(T)
    <2>1. S \subseteq T
      OBVIOUS
    <2> HIDE DEF T
    <2> QED
      BY <2>1, SeqMonotonic
  <1> HIDE DEF T
  <1>7. /\ frame \in Seq(T) /\ Len(frame) = h + l + CrcSize
        /\ \A i \in 1..(h + l) : frame[i] = body[i]
    <2>1. frame \in Seq(T) /\ Len(frame) = Len(body) + Len(crc)
      BY <1>4, <1>6, JoinedLength
    <2>2. \A i \in 1..Len(body) : frame[i] = body[i]
      BY <1>4, <1>6, LeftPart
    <2> QED
      BY <1>2, <1>5, <2>1, <2>2
  <1>8. /\ frame[1] = Magic0 /\ frame[2] = Magic1 /\ frame[3] = ProtocolVersion
        /\ frame[h - 1] = l % ByteBase
        /\ frame[h] = (l \div ByteBase) % ByteBase
    <2>1. /\ 1 \in 1..(h + l) /\ 2 \in 1..(h + l) /\ 3 \in 1..(h + l)
          /\ h - 1 \in 1..(h + l) /\ h \in 1..(h + l)
      BY <1>1
    <2> HIDE DEF h, l
    <2> QED
      BY <1>2, <1>7, <2>1
  <1>9. PayloadLength(frame) = l
    <2>1. h - 1 + 1 = h
      BY <1>1
    <2>2. PayloadLength(frame) = frame[h - 1] + ByteBase * frame[h]
      BY <2>1 DEF PayloadLength, ReadU16
    <2>3. (l % ByteBase) + ByteBase * ((l \div ByteBase) % ByteBase) = l
      BY DEF LengthKept
    <2> HIDE DEF h, l
    <2> QED
      BY <1>8, <2>2, <2>3
  <1>10. /\ SubSeq(frame, 1, Len(frame) - CrcSize) = body
         /\ SubSeq(frame, Len(frame) - CrcSize + 1, Len(frame)) = crc
    <2>1. Len(frame) - CrcSize = Len(body) /\ Len(frame) = Len(body) + Len(crc)
      BY <1>1, <1>2, <1>5, <1>7
    <2>2. /\ 1 \in 1..Len(body) /\ Len(body) \in 1..Len(body)
          /\ Len(body) + 1 \in (Len(body) + 1)..(Len(body) + Len(crc))
          /\ Len(body) + Len(crc) \in (Len(body) + 1)..(Len(body) + Len(crc))
          /\ Len(body) + 1 - Len(body) = 1
          /\ Len(body) + Len(crc) - Len(body) = Len(crc)
      BY <1>1, <1>2, <1>5
    <2>3. SubSeq(frame, 1, Len(body)) = SubSeq(body, 1, Len(body))
      BY <1>4, <1>6, <2>2, SubSeqOfConcat1
    <2>4. SubSeq(frame, Len(body) + 1, Len(body) + Len(crc))
            = SubSeq(crc, 1, Len(crc))
      BY <1>4, <1>6, <2>2, SubSeqOfConcat2
    <2>5. SubSeq(body, 1, Len(body)) = body /\ SubSeq(crc, 1, Len(crc)) = crc
      BY <1>6, SubSeqFull
    <2> QED
      BY <2>1, <2>3, <2>4, <2>5
  <1>11. DecodeResult(frame) = "OK"
    <2>1. /\ ~(Len(frame) < HeaderSize + CrcSize)
          /\ ~(PayloadLength(frame) > MaxPayload)
          /\ Len(frame) = FrameLength(frame)
      BY <1>1, <1>7, <1>9 DEF FrameLength
    <2>2. HasMagic(frame) /\ frame[3] = ProtocolVersion
      BY <1>8 DEF HasMagic
    <2>3. SubSeq(frame, Len(frame) - CrcSize + 1, Len(frame))
            = FrameCrc(SubSeq(frame, 1, Len(frame) - CrcSize))
      BY <1>10 DEF crc
    <2> QED
      BY <2>1, <2>2, <2>3 DEF DecodeResult
  <1>12. SubSeq(frame, HeaderSize + 1, Len(frame) - CrcSize) = payload
    <2> DEFINE a == h + 1
               z == h + l
               part == SubSeq(frame, a, z)
    <2>1. Len(frame) - CrcSize = z
      BY <1>1, <1>7
    <2>2. a \in Int /\ z \in Int /\ \A i \in a..z : frame[i] \in T
      <3>1. \A i \in a..z : i \in 1..Len(frame)
        BY <1>1, <1>7
      <3>2. \A i \in 1..Len(frame) : frame[i] \in T
        BY <1>7, ElementOfSeq
      <3> QED
        BY <1>1, <3>1, <3>2
    <2>3. /\ z - a + 1 = l /\ (a <= z => l = z - a + 1) /\ (~(a <= z) => l = 0)
          /\ \A i \in 1..l : a + i - 1 = h + i /\ h + i \in 1..(h + l)
      BY <1>1
    <2>hide. part = SubSeq(frame, a, z)
      OBVIOUS
    <2> HIDE DEF a, z, part
    <2>4. /\ part \in Seq(T) /\ Len(part) = IF a <= z THEN z - a + 1 ELSE 0
          /\ \A i \in 1..(z - a + 1) : part[i] = frame[a + i - 1]
      BY <2>2, <2>hide, SubSeqProperties
    <2>5. part \in Seq(T) /\ Len(part) = l
      BY <2>3, <2>4
    <2>6. ASSUME NEW i \in 1..l
          PROVE  part[i] = payload[i]
      <3>1. part[i] = frame[a + i - 1]
        BY <2>3, <2>4
      <3>2. a + i - 1 = h + i /\ h + i \in 1..(h + l)
        BY <2>3
      <3>3. frame[h + i] = body[h + i]
        BY <1>7, <3>2
      <3> QED
        BY <1>3, <3>1, <3>2, <3>3
    <2>7. part = payload
      BY <1>payload, <2>5, <2>6, SeqEqual
    <2> QED
      BY <2>1, <2>7 DEF part, a
  <1> QED
    BY <1>11, <1>12 DEF frame

------------------------------------------------------------------------------
(***************************************************************************)
(* Numbers.                                                                *)
(***************************************************************************)
Kinds == {"u8", "u16", "i16", "u32", "i32"}

LEMMA WidthOf ==
  /\ Width("u8") = 1 /\ Width("u16") = 2 /\ Width("i16") = 2
  /\ Width("u32") = 4 /\ Width("i32") = 4
  BY DEF Width

LEMMA OctetIsSmall ==
  ASSUME NEW b
  PROVE  b \in Octet <=> b \in Nat /\ b <= 255
  BY DEF Octet

(***************************************************************************)
(* The bytes of a u16.                                                     *)
(***************************************************************************)
Low(n) == n % 256
High(n) == (n \div 256) % 256

LEMMA HalvesJoined ==
  ASSUME NEW n \in Nat, n <= 65535
  PROVE  /\ Low(n) + 256 * High(n) = n
         /\ Low(n) \in Nat /\ Low(n) <= 255
         /\ High(n) \in Nat /\ High(n) <= 255
  BY DEF Low, High

LEMMA HalvesAreOctets ==
  ASSUME NEW n \in Nat, n <= 65535
  PROVE  Low(n) \in Octet /\ High(n) \in Octet
  <1>1. Low(n) \in Nat /\ Low(n) <= 255 /\ High(n) \in Nat /\ High(n) <= 255
    BY HalvesJoined
  <1> QED
    BY <1>1, OctetIsSmall

LEMMA JoinedHalves ==
  ASSUME NEW a \in Nat, NEW b \in Nat, a <= 255, b <= 255
  PROVE  /\ a + 256 * b \in Nat /\ a + 256 * b <= 65535
         /\ Low(a + 256 * b) = a /\ High(a + 256 * b) = b
  BY DEF Low, High

(***************************************************************************)
(* Two's complement.                                                       *)
(***************************************************************************)
LEMMA SignedRestored ==
  ASSUME NEW v \in Int, -32768 <= v, v <= 32767
  PROVE  v % 65536 \in Nat /\ v % 65536 <= 65535 /\ Signed16(v % 65536) = v
  BY DEF Signed16

LEMMA SignedRewritten ==
  ASSUME NEW n \in Nat, n <= 65535
  PROVE  /\ Signed16(n) \in Int /\ -32768 <= Signed16(n) /\ Signed16(n) <= 32767
         /\ Signed16(n) % 65536 = n
  BY DEF Signed16

UpperHalf(v) == (v \div 65536) % 65536

LEMMA Signed32Restored ==
  ASSUME NEW v \in Int, -2147483647 - 1 <= v, v <= 2147483647
  PROVE  /\ v % 65536 \in Nat /\ v % 65536 <= 65535
         /\ UpperHalf(v) \in Nat /\ UpperHalf(v) <= 65535
         /\ Signed32(v % 65536, UpperHalf(v)) = v
  BY DEF Signed32, UpperHalf

LEMMA Signed32Rewritten ==
  ASSUME NEW a \in Nat, NEW b \in Nat, a <= 65535, b <= 65535
  PROVE  /\ Signed32(a, b) \in Int
         /\ -2147483647 - 1 <= Signed32(a, b) /\ Signed32(a, b) <= 2147483647
         /\ Signed32(a, b) % 65536 = a /\ UpperHalf(Signed32(a, b)) = b
  BY DEF Signed32, UpperHalf

------------------------------------------------------------------------------
(***************************************************************************)
(* One field.                                                              *)
(***************************************************************************)
LEMMA BytesOf16 ==
  ASSUME NEW kind \in {"u16", "i16"}, NEW v
  PROVE  LET n == v % 65536
         IN  /\ WriteField(kind, v)[1] = Low(n)
             /\ WriteField(kind, v)[2] = High(n)
  <1>1. CASE kind = "u16"
    BY <1>1 DEF WriteField, Low, High
  <1>2. CASE kind = "i16"
    BY <1>2 DEF WriteField, Low, High
  <1> QED
    BY <1>1, <1>2

LEMMA FourBytes ==
  ASSUME NEW a, NEW b, NEW c, NEW d
  PROVE  LET s == <<a, b>> \o <<c, d>>
         IN  s[1] = a /\ s[2] = b /\ s[3] = c /\ s[4] = d
  OBVIOUS

LEMMA BytesOfU32 ==
  ASSUME NEW v
  PROVE  /\ WriteField("u32", v)[1] = Low(v[1])
         /\ WriteField("u32", v)[2] = High(v[1])
         /\ WriteField("u32", v)[3] = Low(v[2])
         /\ WriteField("u32", v)[4] = High(v[2])
  BY FourBytes DEF WriteField, Low, High

LEMMA BytesOfI32 ==
  ASSUME NEW v
  PROVE  /\ WriteField("i32", v)[1] = Low(v % 65536)
         /\ WriteField("i32", v)[2] = High(v % 65536)
         /\ WriteField("i32", v)[3] = Low(UpperHalf(v))
         /\ WriteField("i32", v)[4] = High(UpperHalf(v))
  BY FourBytes DEF WriteField, Low, High, UpperHalf

\* What ReadField computes, byte by byte.
LEMMA FieldOfBytes ==
  ASSUME NEW p, NEW o \in Nat
  PROVE  LET low == p[o + 1] + 256 * p[o + 2]
             high == p[o + 3] + 256 * p[o + 4]
         IN  /\ ReadField("u8", p, o) = p[o + 1]
             /\ ReadField("u16", p, o) = low
             /\ ReadField("i16", p, o) = Signed16(low)
             /\ ReadField("u32", p, o) = <<low, high>>
             /\ ReadField("i32", p, o) = Signed32(low, high)
  <1>1. o + 2 + 1 = o + 3 /\ o + 2 + 2 = o + 4
    OBVIOUS
  <1> QED
    BY <1>1 DEF ReadField

\* The bytes a field is written to are bytes.
LEMMA WrittenOctets ==
  ASSUME NEW kind \in Kinds, NEW v, Fits(kind, v), NEW j \in 1..Width(kind)
  PROVE  WriteField(kind, v)[j] \in Octet
  <1>1. CASE kind = "u8"
    BY <1>1, WidthOf DEF Fits, WriteField
  <1>2. CASE kind = "u16"
    <2>1. v \in Nat /\ v <= 65535 /\ v % 65536 = v
      BY <1>2 DEF Fits
    <2>2. WriteField(kind, v)[1] = Low(v) /\ WriteField(kind, v)[2] = High(v)
      BY <1>2, <2>1, BytesOf16
    <2>3. Low(v) \in Octet /\ High(v) \in Octet
      BY <2>1, HalvesAreOctets
    <2>4. j = 1 \/ j = 2
      BY <1>2, WidthOf
    <2> QED
      BY <2>2, <2>3, <2>4
  <1>3. CASE kind = "i16"
    <2> DEFINE n == v % 65536
    <2>1. n \in Nat /\ n <= 65535
      BY <1>3, SignedRestored DEF Fits
    <2>2. WriteField(kind, v)[1] = Low(n) /\ WriteField(kind, v)[2] = High(n)
      BY <1>3, BytesOf16
    <2> HIDE DEF n
    <2>3. Low(n) \in Octet /\ High(n) \in Octet
      BY <2>1, HalvesAreOctets
    <2>4. j = 1 \/ j = 2
      BY <1>3, WidthOf
    <2> QED
      BY <2>2, <2>3, <2>4
  <1>4. CASE kind = "u32"
    <2>1. v[1] \in Nat /\ v[1] <= 65535 /\ v[2] \in Nat /\ v[2] <= 65535
      BY <1>4 DEF Fits
    <2>2. /\ Low(v[1]) \in Octet /\ High(v[1]) \in Octet
          /\ Low(v[2]) \in Octet /\ High(v[2]) \in Octet
      BY <2>1, HalvesAreOctets
    <2>3. j = 1 \/ j = 2 \/ j = 3 \/ j = 4
      BY <1>4, WidthOf
    <2> QED
      BY <1>4, <2>2, <2>3, BytesOfU32
  <1>5. CASE kind = "i32"
    <2> DEFINE a == v % 65536
               b == UpperHalf(v)
    <2>1. a \in Nat /\ a <= 65535 /\ b \in Nat /\ b <= 65535
      BY <1>5, Signed32Restored DEF Fits
    <2>2. /\ WriteField(kind, v)[1] = Low(a) /\ WriteField(kind, v)[2] = High(a)
          /\ WriteField(kind, v)[3] = Low(b) /\ WriteField(kind, v)[4] = High(b)
      BY <1>5, BytesOfI32
    <2> HIDE DEF a, b
    <2>3. /\ Low(a) \in Octet /\ High(a) \in Octet
          /\ Low(b) \in Octet /\ High(b) \in Octet
      BY <2>1, HalvesAreOctets
    <2>4. j = 1 \/ j = 2 \/ j = 3 \/ j = 4
      BY <1>5, WidthOf
    <2> QED
      BY <2>2, <2>3, <2>4
  <1> QED
    BY <1>1, <1>2, <1>3, <1>4, <1>5 DEF Kinds

\* A field read where it was written has its value again.
LEMMA FieldRestored ==
  ASSUME NEW kind \in Kinds, NEW v, Fits(kind, v), NEW p, NEW o \in Nat,
         \A j \in 1..Width(kind) : p[o + j] = WriteField(kind, v)[j]
  PROVE  ReadField(kind, p, o) = v
  <1>1. CASE kind = "u8"
    <2>1. p[o + 1] = WriteField(kind, v)[1]
      BY <1>1, WidthOf
    <2>2. WriteField("u8", v)[1] = v
      BY DEF WriteField
    <2> QED
      BY <1>1, <2>1, <2>2, FieldOfBytes
  <1>2. CASE kind = "u16"
    <2>1. p[o + 1] = WriteField(kind, v)[1] /\ p[o + 2] = WriteField(kind, v)[2]
      BY <1>2, WidthOf
    <2>2. v \in Nat /\ v <= 65535 /\ v % 65536 = v
      BY <1>2 DEF Fits
    <2>3. p[o + 1] = Low(v) /\ p[o + 2] = High(v)
      BY <1>2, <2>1, <2>2, BytesOf16
    <2>4. p[o + 1] + 256 * p[o + 2] = v
      <3>1. v \in Nat /\ v <= 65535
        BY <2>2
      <3>2. Low(v) + 256 * High(v) = v
        BY <3>1, HalvesJoined
      <3> QED
        BY <2>3, <3>2
    <2> QED
      BY <1>2, <2>4, FieldOfBytes
  <1>3. CASE kind = "i16"
    <2> DEFINE n == v % 65536
    <2>1. p[o + 1] = WriteField(kind, v)[1] /\ p[o + 2] = WriteField(kind, v)[2]
      BY <1>3, WidthOf
    <2>2. n \in Nat /\ n <= 65535 /\ Signed16(n) = v
      BY <1>3, SignedRestored DEF Fits
    <2>3. p[o + 1] = Low(n) /\ p[o + 2] = High(n)
      BY <1>3, <2>1, BytesOf16
    <2> HIDE DEF n
    <2>4. p[o + 1] + 256 * p[o + 2] = n
      BY <2>2, <2>3, HalvesJoined
    <2> QED
      BY <1>3, <2>2, <2>4, FieldOfBytes
  <1>4. CASE kind = "u32"
    <2>1. /\ p[o + 1] = WriteField(kind, v)[1] /\ p[o + 2] = WriteField(kind, v)[2]
          /\ p[o + 3] = WriteField(kind, v)[3] /\ p[o + 4] = WriteField(kind, v)[4]
      BY <1>4, WidthOf
    <2>2. /\ v[1] \in Nat /\ v[1] <= 65535 /\ v[2] \in Nat /\ v[2] <= 65535
          /\ v = <<v[1], v[2]>>
      BY <1>4 DEF Fits
    <2>3. /\ p[o + 1] = Low(v[1]) /\ p[o + 2] = High(v[1])
          /\ p[o + 3] = Low(v[2]) /\ p[o + 4] = High(v[2])
      BY <1>4, <2>1, BytesOfU32
    <2>4. /\ p[o + 1] + 256 * p[o + 2] = v[1]
          /\ p[o + 3] + 256 * p[o + 4] = v[2]
      BY <2>2, <2>3, HalvesJoined
    <2>5. ReadField(kind, p, o) = <<v[1], v[2]>>
      BY <1>4, <2>4, FieldOfBytes
    <2> QED
      BY <2>2, <2>5
  <1>5. CASE kind = "i32"
    <2> DEFINE a == v % 65536
               b == UpperHalf(v)
    <2>1. /\ p[o + 1] = WriteField(kind, v)[1] /\ p[o + 2] = WriteField(kind, v)[2]
          /\ p[o + 3] = WriteField(kind, v)[3] /\ p[o + 4] = WriteField(kind, v)[4]
      BY <1>5, WidthOf
    <2>2. /\ a \in Nat /\ a <= 65535 /\ b \in Nat /\ b <= 65535
          /\ Signed32(a, b) = v
      BY <1>5, Signed32Restored DEF Fits
    <2>3. /\ p[o + 1] = Low(a) /\ p[o + 2] = High(a)
          /\ p[o + 3] = Low(b) /\ p[o + 4] = High(b)
      BY <1>5, <2>1, BytesOfI32
    <2> HIDE DEF a, b
    <2>4. p[o + 1] + 256 * p[o + 2] = a /\ p[o + 3] + 256 * p[o + 4] = b
      BY <2>2, <2>3, HalvesJoined
    <2> QED
      BY <1>5, <2>2, <2>4, FieldOfBytes
  <1> QED
    BY <1>1, <1>2, <1>3, <1>4, <1>5 DEF Kinds

\* A field written as it was read leaves its bytes as they were.
LEMMA FieldRewritten ==
  ASSUME NEW kind \in Kinds, NEW p, NEW o \in Nat,
         \A j \in 1..Width(kind) : p[o + j] \in Octet
  PROVE  /\ Fits(kind, ReadField(kind, p, o))
         /\ \A j \in 1..Width(kind) :
              WriteField(kind, ReadField(kind, p, o))[j] = p[o + j]
  <1> DEFINE v == ReadField(kind, p, o)
             low == p[o + 1] + 256 * p[o + 2]
             high == p[o + 3] + 256 * p[o + 4]
  <1>1. CASE kind = "u8"
    <2>1. v = p[o + 1] /\ p[o + 1] \in Octet
      BY <1>1, WidthOf, FieldOfBytes
    <2>2. Fits("u8", v) /\ WriteField("u8", v)[1] = v
      BY <2>1 DEF Fits, WriteField
    <2>3. \A j \in 1..Width(kind) : j = 1
      BY <1>1, WidthOf
    <2> HIDE DEF v
    <2>4. Fits(kind, v) /\ \A j \in 1..Width(kind) : WriteField(kind, v)[j] = p[o + j]
      BY <1>1, <2>1, <2>2, <2>3
    <2> QED
      BY <2>4 DEF v
  <1>2. ASSUME Width(kind) >= 2, Width(kind) \in Nat
        PROVE  /\ low \in Nat /\ low <= 65535
               /\ Low(low) = p[o + 1] /\ High(low) = p[o + 2]
    <2>1. p[o + 1] \in Octet /\ p[o + 2] \in Octet
      BY <1>2
    <2>2. /\ p[o + 1] \in Nat /\ p[o + 1] <= 255
          /\ p[o + 2] \in Nat /\ p[o + 2] <= 255
      BY <2>1, OctetIsSmall
    <2> QED
      BY <2>2, JoinedHalves
  <1>3. ASSUME Width(kind) = 4
        PROVE  /\ high \in Nat /\ high <= 65535
               /\ Low(high) = p[o + 3] /\ High(high) = p[o + 4]
    <2>1. p[o + 3] \in Octet /\ p[o + 4] \in Octet
      BY <1>3
    <2>2. /\ p[o + 3] \in Nat /\ p[o + 3] <= 255
          /\ p[o + 4] \in Nat /\ p[o + 4] <= 255
      BY <2>1, OctetIsSmall
    <2> QED
      BY <2>2, JoinedHalves
  <1>4. CASE kind = "u16"
    <2>1. /\ v = low /\ low \in Nat /\ low <= 65535 /\ low % 65536 = low
          /\ Low(low) = p[o + 1] /\ High(low) = p[o + 2]
      BY <1>2, <1>4, WidthOf, FieldOfBytes
    <2> HIDE DEF low, v
    <2>2. Fits("u16", v)
      BY <2>1 DEF Fits
    <2>3. WriteField("u16", v)[1] = p[o + 1] /\ WriteField("u16", v)[2] = p[o + 2]
      BY <2>1, BytesOf16
    <2>4. \A j \in 1..Width(kind) : j = 1 \/ j = 2
      BY <1>4, WidthOf
    <2>5. Fits(kind, v) /\ \A j \in 1..Width(kind) : WriteField(kind, v)[j] = p[o + j]
      BY <1>4, <2>2, <2>3, <2>4
    <2> QED
      BY <2>5 DEF v
  <1>5. CASE kind = "i16"
    <2>1. /\ v = Signed16(low) /\ low \in Nat /\ low <= 65535
          /\ Low(low) = p[o + 1] /\ High(low) = p[o + 2]
      BY <1>2, <1>5, WidthOf, FieldOfBytes
    <2> HIDE DEF low, v
    <2>2. v \in Int /\ -32768 <= v /\ v <= 32767 /\ v % 65536 = low
      BY <2>1, SignedRewritten
    <2>3. Fits("i16", v)
      BY <2>2 DEF Fits
    <2>4. WriteField("i16", v)[1] = p[o + 1] /\ WriteField("i16", v)[2] = p[o + 2]
      BY <2>1, <2>2, BytesOf16
    <2>5. \A j \in 1..Width(kind) : j = 1 \/ j = 2
      BY <1>5, WidthOf
    <2>6. Fits(kind, v) /\ \A j \in 1..Width(kind) : WriteField(kind, v)[j] = p[o + j]
      BY <1>5, <2>3, <2>4, <2>5
    <2> QED
      BY <2>6 DEF v
  <1>6. CASE kind = "u32"
    <2>1. /\ v = <<low, high>>
          /\ low \in Nat /\ low <= 65535 /\ high \in Nat /\ high <= 65535
          /\ Low(low) = p[o + 1] /\ High(low) = p[o + 2]
          /\ Low(high) = p[o + 3] /\ High(high) = p[o + 4]
      BY <1>2, <1>3, <1>6, WidthOf, FieldOfBytes
    <2> HIDE DEF low, high, v
    <2>2. v[1] = low /\ v[2] = high
      BY <2>1
    <2>3. Fits("u32", v)
      BY <2>1, <2>2 DEF Fits
    <2>4. /\ WriteField("u32", v)[1] = p[o + 1] /\ WriteField("u32", v)[2] = p[o + 2]
          /\ WriteField("u32", v)[3] = p[o + 3] /\ WriteField("u32", v)[4] = p[o + 4]
      BY <2>1, <2>2, BytesOfU32
    <2>5. \A j \in 1..Width(kind) : j = 1 \/ j = 2 \/ j = 3 \/ j = 4
      BY <1>6, WidthOf
    <2>6. Fits(kind, v) /\ \A j \in 1..Width(kind) : WriteField(kind, v)[j] = p[o + j]
      BY <1>6, <2>3, <2>4, <2>5
    <2> QED
      BY <2>6 DEF v
  <1>7. CASE kind = "i32"
    <2>1. /\ v = Signed32(low, high)
          /\ low \in Nat /\ low <= 65535 /\ high \in Nat /\ high <= 65535
          /\ Low(low) = p[o + 1] /\ High(low) = p[o + 2]
          /\ Low(high) = p[o + 3] /\ High(high) = p[o + 4]
      BY <1>2, <1>3, <1>7, WidthOf, FieldOfBytes
    <2> HIDE DEF low, high, v
    <2>2. /\ v \in Int /\ -2147483647 - 1 <= v /\ v <= 2147483647
          /\ v % 65536 = low /\ UpperHalf(v) = high
      BY <2>1, Signed32Rewritten
    <2>3. Fits("i32", v)
      BY <2>2 DEF Fits
    <2>4. /\ WriteField("i32", v)[1] = p[o + 1] /\ WriteField("i32", v)[2] = p[o + 2]
          /\ WriteField("i32", v)[3] = p[o + 3] /\ WriteField("i32", v)[4] = p[o + 4]
      BY <2>1, <2>2, BytesOfI32
    <2>5. \A j \in 1..Width(kind) : j = 1 \/ j = 2 \/ j = 3 \/ j = 4
      BY <1>7, WidthOf
    <2>6. Fits(kind, v) /\ \A j \in 1..Width(kind) : WriteField(kind, v)[j] = p[o + j]
      BY <1>7, <2>3, <2>4, <2>5
    <2> QED
      BY <2>6 DEF v
  <1> QED
    BY <1>1, <1>4, <1>5, <1>6, <1>7 DEF Kinds

------------------------------------------------------------------------------
(***************************************************************************)
(* The layouts.                                                            *)
(***************************************************************************)
\* Field k of a message of type t covers the i-th byte.
Covers(t, k, i) ==
  i - EncodeLayout[t][k][2] \in 1..Width(EncodeLayout[t][k][1])

Tiles(layout, size) ==
  /\ size \in Nat
  /\ \A k \in DOMAIN layout :
       /\ layout[k][1] \in Kinds /\ layout[k][2] \in Nat
       /\ layout[k][2] + Width(layout[k][1]) <= size
  /\ \A j, k \in DOMAIN layout :
       j = k \/ layout[j][2] + Width(layout[j][1]) <= layout[k][2]
             \/ layout[k][2] + Width(layout[k][1]) <= layout[j][2]
  /\ \A i \in 1..size : \E k \in DOMAIN layout :
       i - layout[k][2] \in 1..Width(layout[k][1])

\* The fields of every message tile its payload: they lie inside, none overlap
\* and none leaves a byte out.
LEMMA LayoutTiles ==
  ASSUME NEW t \in DOMAIN PayloadSize
  PROVE  Tiles(EncodeLayout[t], PayloadSize[t])
  <1>1. CASE t = "HEARTBEAT"
    BY <1>1, WidthOf DEF EncodeLayout, PayloadSize, Tiles, Kinds
  <1>2. CASE t = "ESTOP_SET"
    BY <1>2, WidthOf DEF EncodeLayout, PayloadSize, Tiles, Kinds
  <1>3. CASE t = "CLEAR_LATCHED_FAULT"
    BY <1>3, WidthOf DEF EncodeLayout, PayloadSize, Tiles, Kinds
  <1>4. CASE t = "IDENTIFY_REQUEST"
    BY <1>4, WidthOf DEF EncodeLayout, PayloadSize, Tiles, Kinds
  <1>5. CASE t = "DRIVE_SETPOINT"
    BY <1>5, WidthOf DEF EncodeLayout, PayloadSize, Tiles, Kinds
  <1>6. CASE t = "CLEANING_MOTORS_SET"
    BY <1>6, WidthOf DEF EncodeLayout, PayloadSize, Tiles, Kinds
  <1>7. CASE t = "LIDAR_MOTOR_SET"
    BY <1>7, WidthOf DEF EncodeLayout, PayloadSize, Tiles, Kinds
  <1>8. CASE t = "LED_SET"
    BY <1>8, WidthOf DEF EncodeLayout, PayloadSize, Tiles, Kinds
  <1>9. CASE t = "ACK"
    BY <1>9, WidthOf DEF EncodeLayout, PayloadSize, Tiles, Kinds
  <1>10. CASE t = "NACK"
    BY <1>10, WidthOf DEF EncodeLayout, PayloadSize, Tiles, Kinds
  <1>11. CASE t = "MCU_HELLO"
    BY <1>11, WidthOf DEF EncodeLayout, PayloadSize, Tiles, Kinds
  <1>12. CASE t = "FAST_TELEMETRY"
    BY <1>12, WidthOf DEF EncodeLayout, PayloadSize, Tiles, Kinds
  <1>13. CASE t = "SAFETY_EVENT"
    BY <1>13, WidthOf DEF EncodeLayout, PayloadSize, Tiles, Kinds
  <1>14. CASE t = "SAFETY_STATE"
    BY <1>14, WidthOf DEF EncodeLayout, PayloadSize, Tiles, Kinds
  <1> QED
    BY <1>1, <1>2, <1>3, <1>4, <1>5, <1>6, <1>7, <1>8, <1>9, <1>10, <1>11,
       <1>12, <1>13, <1>14 DEF PayloadSize

\* The two layout tables of the source agree.
LEMMA OneLayout == EncodeLayout = DecodeLayout
  BY DEF EncodeLayout, DecodeLayout

LEMMA HoldsNumbers ==
  ASSUME NEW message, message.type \in DOMAIN PayloadSize, Holdable(message)
  PROVE  LET layout == EncodeLayout[message.type]
         IN  /\ message = Message(message.type,
                                  [k \in DOMAIN layout |-> message.values[k]])
             /\ \A k \in DOMAIN layout : Fits(layout[k][1], message.values[k])
  BY OneLayout DEF Holdable

\* The j-th byte of field k is written by field k and by no other.
LEMMA ByteOfField ==
  ASSUME NEW message, message.type \in DOMAIN PayloadSize, NEW before,
         NEW k \in DOMAIN EncodeLayout[message.type],
         NEW j \in 1..Width(EncodeLayout[message.type][k][1])
  PROVE  LET layout == EncodeLayout[message.type]
         IN  BytesWritten(message, before)[layout[k][2] + j]
               = WriteField(layout[k][1], message.values[k])[j]
  <1> DEFINE layout == EncodeLayout[message.type]
             size == PayloadSize[message.type]
             i == layout[k][2] + j
             c == CHOOSE m \in DOMAIN layout :
                    i - layout[m][2] \in 1..Width(layout[m][1])
  <1>1. Tiles(layout, size)
    BY LayoutTiles
  <1>2. layout[k][1] \in Kinds
    BY <1>1 DEF Tiles
  <1>3. \A kind \in Kinds : Width(kind) \in Nat
    BY WidthOf DEF Kinds
  <1>4. /\ layout[k][2] \in Nat /\ size \in Nat /\ j \in Nat /\ j >= 1
        /\ j <= Width(layout[k][1]) /\ Width(layout[k][1]) \in Nat
        /\ layout[k][2] + Width(layout[k][1]) <= size
    BY <1>1, <1>2, <1>3 DEF Tiles
  <1>5. i \in 1..size /\ i - layout[k][2] = j
    BY <1>4
  <1>6. c \in DOMAIN layout /\ i - layout[c][2] \in 1..Width(layout[c][1])
    BY <1>5
  <1>7. BytesWritten(message, before)[i]
          = WriteField(layout[c][1], message.values[c])[i - layout[c][2]]
    BY <1>5 DEF BytesWritten
  <1>8. c = k
    <2>1. /\ layout[c][1] \in Kinds /\ layout[c][2] \in Nat
          /\ \/ c = k
             \/ layout[c][2] + Width(layout[c][1]) <= layout[k][2]
             \/ layout[k][2] + Width(layout[k][1]) <= layout[c][2]
      BY <1>1, <1>6 DEF Tiles
    <2>2. Width(layout[c][1]) \in Nat
      BY <1>3, <2>1
    <2> HIDE DEF c
    <2> QED
      BY <1>4, <1>6, <2>1, <2>2
  <1> HIDE DEF c
  <1> QED
    BY <1>5, <1>7, <1>8

\* Every byte of every field stands in its place.
Written(bytes, message) ==
  LET layout == EncodeLayout[message.type]
  IN  \A k \in DOMAIN layout : \A j \in 1..Width(layout[k][1]) :
        bytes[layout[k][2] + j] = WriteField(layout[k][1], message.values[k])[j]

LEMMA BytesOfField ==
  ASSUME NEW message, message.type \in DOMAIN PayloadSize, NEW before
  PROVE  Written(BytesWritten(message, before), message)
  BY ByteOfField DEF Written

\* What is encoded is a payload of the right length, made of bytes.
LEMMA EncodedPayload ==
  ASSUME NEW message, message.type \in DOMAIN PayloadSize, Holdable(message),
         NEW before
  PROVE  /\ BytesWritten(message, before) \in Seq(Octet)
         /\ Len(BytesWritten(message, before)) = PayloadSize[message.type]
  <1> DEFINE layout == EncodeLayout[message.type]
             size == PayloadSize[message.type]
             p == BytesWritten(message, before)
  <1>1. Tiles(layout, size)
    BY LayoutTiles
  <1>2. size \in Nat
    BY <1>1 DEF Tiles
  <1>3. ASSUME NEW i \in 1..size
        PROVE  p[i] \in Octet
    <2>1. PICK k \in DOMAIN layout : i - layout[k][2] \in 1..Width(layout[k][1])
      BY <1>1 DEF Tiles
    <2> DEFINE j == i - layout[k][2]
    <2>2. /\ layout[k][1] \in Kinds /\ layout[k][2] \in Nat
          /\ j \in 1..Width(layout[k][1]) /\ layout[k][2] + j = i
      BY <1>1, <1>2, <2>1 DEF Tiles
    <2> HIDE DEF j
    <2>3. p[i] = WriteField(layout[k][1], message.values[k])[j]
      <3>1. Written(p, message)
        BY BytesOfField
      <3> HIDE DEF p
      <3>2. p[layout[k][2] + j] = WriteField(layout[k][1], message.values[k])[j]
        BY <2>2, <3>1 DEF Written
      <3> QED
        BY <2>2, <3>2
    <2>4. Fits(layout[k][1], message.values[k])
      BY HoldsNumbers
    <2> QED
      BY <2>2, <2>3, <2>4, WrittenOctets
  <1>4. DOMAIN p = 1..size /\ p = [i \in 1..size |-> p[i]]
    BY DEF BytesWritten
  <1>5. p \in [1..size -> Octet]
    BY <1>3, <1>4
  <1> HIDE DEF p, size
  <1>6. p \in Seq(Octet) /\ Len(p) = size
    BY <1>2, <1>5, SeqDef
  <1> QED
    BY <1>6 DEF p, size

\* Decoding what was encoded gives the message back.
LEMMA FieldsRestored ==
  ASSUME NEW message, message.type \in DOMAIN PayloadSize, Holdable(message),
         NEW before
  PROVE  Message(message.type,
                 FieldsRead(message.type, BytesWritten(message, before)))
           = message
  <1> DEFINE layout == EncodeLayout[message.type]
             p == BytesWritten(message, before)
  <1>1. DecodeLayout[message.type] = layout
    BY OneLayout
  <1>2. Tiles(layout, PayloadSize[message.type])
    BY LayoutTiles
  <1>3. ASSUME NEW k \in DOMAIN layout
        PROVE  ReadField(layout[k][1], p, layout[k][2]) = message.values[k]
    <2>1. layout[k][1] \in Kinds /\ layout[k][2] \in Nat
      BY <1>2 DEF Tiles
    <2>2. Fits(layout[k][1], message.values[k])
      BY HoldsNumbers
    <2>3. \A j \in 1..Width(layout[k][1]) :
            p[layout[k][2] + j] = WriteField(layout[k][1], message.values[k])[j]
      <3>1. Written(p, message)
        BY BytesOfField
      <3> HIDE DEF p
      <3> QED
        BY <3>1 DEF Written
    <2> HIDE DEF p, layout
    <2> QED
      BY <2>1, <2>2, <2>3, FieldRestored
  <1>4. message = Message(message.type, [k \in DOMAIN layout |-> message.values[k]])
    BY HoldsNumbers
  <1>5. FieldsRead(message.type, p) = [k \in DOMAIN layout |-> message.values[k]]
    BY <1>1, <1>3 DEF FieldsRead
  <1> QED
    BY <1>4, <1>5

\* Encoding what was decoded gives the payload back, byte for byte.
LEMMA PayloadRewritten ==
  ASSUME NEW message, message.type \in DOMAIN PayloadSize,
         NEW p \in Seq(Octet), Len(p) = PayloadSize[message.type],
         NEW before
  PROVE  message.values = FieldsRead(message.type, p)
           => BytesWritten(message, before) = p
  <1> DEFINE layout == EncodeLayout[message.type]
             size == PayloadSize[message.type]
             w == BytesWritten(message, before)
  <1>1. DecodeLayout[message.type] = layout
    BY OneLayout
  <1>2. Tiles(layout, size) /\ size \in Nat /\ Len(p) = size
    BY LayoutTiles DEF Tiles
  <1>3. \A k \in DOMAIN layout : \A j \in 1..Width(layout[k][1]) :
          w[layout[k][2] + j] = WriteField(layout[k][1], message.values[k])[j]
    <2>1. Written(w, message)
      BY BytesOfField
    <2> HIDE DEF w
    <2> QED
      BY <2>1 DEF Written
  <1> SUFFICES ASSUME message.values = FieldsRead(message.type, p)
               PROVE  w = p
    OBVIOUS
  <1>4. ASSUME NEW i \in 1..size
        PROVE  w[i] = p[i]
    <2>1. PICK k \in DOMAIN layout : i - layout[k][2] \in 1..Width(layout[k][1])
      BY <1>2 DEF Tiles
    <2> DEFINE kind == layout[k][1]
               o == layout[k][2]
               j == i - o
    <2>2. kind \in Kinds /\ o \in Nat /\ o + Width(kind) <= size
      BY <1>2 DEF Tiles
    <2>3. Width(kind) \in Nat
      BY <2>2, WidthOf DEF Kinds
    <2>4. j \in 1..Width(kind) /\ o + j = i
      BY <2>1, <2>2
    <2>5. message.values[k] = ReadField(kind, p, o)
      BY <1>1 DEF FieldsRead
    <2>6. \A m \in 1..Width(kind) : w[o + m] = WriteField(kind, message.values[k])[m]
      BY <1>3
    <2> HIDE DEF kind, o, j, w, size
    <2>7. ASSUME NEW m \in 1..Width(kind)
          PROVE  p[o + m] \in Octet
      <3>1. o + m \in 1..Len(p)
        BY <1>2, <2>2, <2>3
      <3> QED
        BY <3>1, ElementOfSeq
    <2>8. WriteField(kind, ReadField(kind, p, o))[j] = p[o + j]
      BY <2>2, <2>4, <2>7, FieldRewritten
    <2> QED
      BY <2>4, <2>5, <2>6, <2>8
  <1>5. w = [i \in 1..size |-> w[i]]
    BY DEF BytesWritten
  <1>6. p = [i \in 1..size |-> p[i]]
    BY <1>2, LenProperties
  <1> HIDE DEF w, size
  <1>7. w = p
    BY <1>4, <1>5, <1>6
  <1> QED
    BY <1>7 DEF w

------------------------------------------------------------------------------
(***************************************************************************)
(* Whole messages.                                                         *)
(***************************************************************************)
LEMMA SizedTypes ==
  ASSUME NEW t
  PROVE  SizeResult(t) = "OK" <=> t \in DOMAIN PayloadSize
  <1> DEFINE open == {"POWER_TELEMETRY", "MCU_DIAGNOSTIC"}
  <1>1. \A x \in open : x \notin DOMAIN PayloadSize
    BY DEF PayloadSize
  <1>2. CASE t \in DOMAIN PayloadSize
    <2>1. t \notin open
      BY <1>1, <1>2
    <2> QED
      BY <1>2, <2>1 DEF SizeResult
  <1>3. CASE t \in open
    BY <1>1, <1>3 DEF SizeResult
  <1>4. CASE t \notin DOMAIN PayloadSize /\ t \notin open
    BY <1>4 DEF SizeResult
  <1> QED
    BY <1>2, <1>3, <1>4

LEMMA Decoded ==
  ASSUME NEW t, NEW p
  PROVE  LET outcome == DecodePayload(t, p)
             message == Message(t, FieldsRead(t, p))
         IN  /\ outcome.result # "OK" => outcome.message = Cleared
             /\ outcome.result = "OK" =>
                  /\ t \in DOMAIN PayloadSize /\ Len(p) = PayloadSize[t]
                  /\ ValidateResult(message) = "OK"
                  /\ outcome.message = message
             /\ (/\ t \in DOMAIN PayloadSize /\ Len(p) = PayloadSize[t]
                 /\ ValidateResult(message) = "OK")
                  => outcome.result = "OK" /\ outcome.message = message
  BY SizedTypes DEF DecodePayload

------------------------------------------------------------------------------
(***************************************************************************)
(* The CRC.  What follows is an induction over the bytes of a frame: the   *)
(* library's induction theorems cannot be cited, so it goes through the    *)
(* least element of a set of numbers.                                      *)
(***************************************************************************)
Less == {pair \in Nat \X Nat : pair[1] < pair[2]}

\* Every set of natural numbers that holds something has a least element.
LEMMA LeastOf ==
  ASSUME NEW T, T \subseteq Nat, T # {}
  PROVE  \E x \in T : \A y \in T : x <= y
<1>1. IsWellFoundedOn(Less, Nat)
  BY NatLessThanWellFounded DEF OpToRel, Less
<1>2. PICK x \in T : \A y \in T : ~ (<<y, x>> \in Less)
  BY <1>1, WFMin
<1>3. ASSUME NEW y \in T PROVE x <= y
  <2>1. ~ (<<y, x>> \in Less)
    BY <1>2
  <2> QED
    BY <2>1 DEF Less
<1> QED
  BY <1>3

\* Induction, over a set where the library has a predicate.
LEMMA SetInduction ==
  ASSUME NEW S, 0 \in S, \A n \in Nat : n \in S => n + 1 \in S
  PROVE  Nat \subseteq S
<1> DEFINE T == Nat \ S
<1> SUFFICES ASSUME T # {} PROVE FALSE
  OBVIOUS
<1>1. PICK x \in T : \A y \in T : x <= y
  BY LeastOf
<1>2. x # 0
  OBVIOUS
<1>3. x - 1 \in Nat /\ x - 1 \notin T
  BY <1>1, <1>2
<1>4. x \in S
  BY <1>3
<1> QED
  BY <1>1, <1>4

------------------------------------------------------------------------------
\* The loop of oomwoo_crc16_ccitt_false: one byte after the other.
Recorded(s, r, k) ==
  r = [n \in 0..k |-> IF n = 0 THEN Crc16Start ELSE CrcByte(r[n - 1], s[n])]

LEMMA RegistersRecorded ==
  ASSUME NEW s, Len(s) \in Nat
  PROVE  Recorded(s, Registers(s), Len(s))
<1> DEFINE S == {k \in Nat : \E r : Recorded(s, r, k)}
<1>1. 0 \in S
  <2> DEFINE r == [n \in 0..0 |-> Crc16Start]
  <2>1. Recorded(s, r, 0)
    BY DEF Recorded
  <2> QED
    BY <2>1
<1>2. ASSUME NEW k \in Nat, k \in S
      PROVE  k + 1 \in S
  <2>1. PICK r : Recorded(s, r, k)
    BY <1>2
  <2> DEFINE q == [n \in 0..(k + 1) |-> IF n <= k THEN r[n] ELSE CrcByte(r[k], s[k + 1])]
  <2>2. ASSUME NEW n \in 0..(k + 1)
        PROVE  q[n] = IF n = 0 THEN Crc16Start ELSE CrcByte(q[n - 1], s[n])
    <3>1. CASE n = 0
      BY <2>1, <3>1 DEF Recorded
    <3>2. CASE n \in 1..k
      <4>1. q[n] = r[n] /\ q[n - 1] = r[n - 1]
        BY <3>2
      <4> QED
        BY <2>1, <3>2, <4>1 DEF Recorded
    <3>3. CASE n = k + 1
      <4>1. q[n - 1] = r[k] /\ q[n] = CrcByte(r[k], s[k + 1])
        BY <3>3
      <4> QED
        BY <3>3, <4>1
    <3> QED
      BY <3>1, <3>2, <3>3
  <2>3. Recorded(s, q, k + 1)
    BY <2>2 DEF Recorded
  <2> QED
    BY <2>3
<1>3. Len(s) \in S
  BY <1>1, <1>2, SetInduction
<1>4. PICK r : Recorded(s, r, Len(s))
  BY <1>3
<1> QED
  BY <1>4 DEF Recorded, Registers


------------------------------------------------------------------------------
\* An exclusive or with the same bit keeps two bits apart.
LEMMA XorCancels ==
  ASSUME NEW a \in Bit, NEW b \in Bit, NEW c \in Bit
  PROVE  /\ Xor(a, c) \in Bit
         /\ Xor(a, c) = Xor(b, c) => a = b
         /\ Xor(c, a) = Xor(c, b) => a = b
BY DEF Bit, Xor

LEMMA CrcBitAt ==
  ASSUME NEW crc \in Register
  PROVE  /\ CrcBit[crc] \in Register
         /\ CrcBit[crc][0] = crc[15]
         /\ \A i \in 1..15 :
              CrcBit[crc][i] = IF i \in {5, 12} THEN Xor(crc[i - 1], crc[15]) ELSE crc[i - 1]
<1>1. \A i \in 0..15 : crc[i] \in Bit
  BY DEF Register
<1>2. ASSUME NEW i \in {5, 12}
      PROVE  Xor(crc[i - 1], crc[15]) \in Bit
  <2>1. crc[i - 1] \in Bit /\ crc[15] \in Bit
    BY <1>1
  <2> QED
    BY <2>1, XorCancels
<1> QED
  BY <1>1, <1>2 DEF CrcBit, Register

\* What a step leaves equal was equal before it, one place lower; its lowest bit
\* tells the one that fell out.
LEMMA CrcBitBack ==
  ASSUME NEW a \in Register, NEW b \in Register, CrcBit[a][0] = CrcBit[b][0]
  PROVE  /\ a[15] = b[15]
         /\ \A i \in 0..14 : CrcBit[a][i + 1] = CrcBit[b][i + 1] => a[i] = b[i]
<1>1. a[15] = b[15]
  BY CrcBitAt
<1>2. \A i \in 0..15 : a[i] \in Bit /\ b[i] \in Bit
  BY DEF Register
<1>3. ASSUME NEW i \in 0..14, CrcBit[a][i + 1] = CrcBit[b][i + 1]
      PROVE  a[i] = b[i]
  <2> DEFINE j == i + 1
  <2>1. j \in 1..15 /\ j - 1 = i
    OBVIOUS
  <2>2. /\ CrcBit[a][j] = IF j \in {5, 12} THEN Xor(a[i], a[15]) ELSE a[i]
        /\ CrcBit[b][j] = IF j \in {5, 12} THEN Xor(b[i], b[15]) ELSE b[i]
    BY <2>1, CrcBitAt
  <2>3. a[i] \in Bit /\ b[i] \in Bit /\ a[15] \in Bit
    BY <1>2
  <2>4. Xor(a[i], a[15]) = Xor(b[i], a[15]) => a[i] = b[i]
    BY <2>3, XorCancels
  <2> QED
    BY <1>1, <1>3, <2>2, <2>4
<1> QED
  BY <1>1, <1>3

Alike(a, b, positions) == \A i \in positions : a[i] = b[i]

\* The low octet after eight bits tells the high octet before them, bit by bit.
LEMMA AlikeBack ==
  ASSUME NEW a \in Register, NEW b \in Register, NEW k \in 0..7,
         Alike(CrcBit[a], CrcBit[b], (0..k) \cup ((9 + k)..15))
  PROVE  Alike(a, b, (0..(k - 1)) \cup ((8 + k)..15))
<1>1. CrcBit[a][0] = CrcBit[b][0]
  BY DEF Alike
<1>2. /\ a[15] = b[15]
      /\ \A i \in 0..14 : CrcBit[a][i + 1] = CrcBit[b][i + 1] => a[i] = b[i]
  BY <1>1, CrcBitBack
<1>3. ASSUME NEW i \in (0..(k - 1)) \cup ((8 + k)..15), i # 15
      PROVE  a[i] = b[i]
  <2>1. i \in 0..14 /\ i + 1 \in (0..k) \cup ((9 + k)..15)
    BY <1>3
  <2>2. CrcBit[a][i + 1] = CrcBit[b][i + 1]
    BY <2>1 DEF Alike
  <2> QED
    BY <1>2, <2>1, <2>2
<1> QED
  BY <1>2, <1>3 DEF Alike

LEMMA CrcBitInjective ==
  ASSUME NEW a \in Register, NEW b \in Register, CrcBit[a] = CrcBit[b]
  PROVE  a = b
<1>1. /\ a[15] = b[15]
      /\ \A i \in 0..14 : a[i] = b[i]
  BY CrcBitBack
<1> QED
  BY <1>1 DEF Register

LEMMA EightBitsBack ==
  ASSUME NEW a \in Register, NEW b \in Register
  PROVE  /\ EightBits[a] \in Register
         /\ EightBits[a] = EightBits[b] => a = b
         /\ Alike(EightBits[a], EightBits[b], 0..7) => Alike(a, b, 8..15)
<1> DEFINE a1 == CrcBit[a]   b1 == CrcBit[b]
           a2 == CrcBit[a1]  b2 == CrcBit[b1]
           a3 == CrcBit[a2]  b3 == CrcBit[b2]
           a4 == CrcBit[a3]  b4 == CrcBit[b3]
           a5 == CrcBit[a4]  b5 == CrcBit[b4]
           a6 == CrcBit[a5]  b6 == CrcBit[b5]
           a7 == CrcBit[a6]  b7 == CrcBit[b6]
           a8 == CrcBit[a7]  b8 == CrcBit[b7]
<1>1. EightBits[a] = a8 /\ EightBits[b] = b8
  BY DEF EightBits
<1>2. /\ a1 \in Register /\ b1 \in Register /\ a2 \in Register /\ b2 \in Register
      /\ a3 \in Register /\ b3 \in Register /\ a4 \in Register /\ b4 \in Register
      /\ a5 \in Register /\ b5 \in Register /\ a6 \in Register /\ b6 \in Register
      /\ a7 \in Register /\ b7 \in Register /\ a8 \in Register /\ b8 \in Register
  BY CrcBitAt
<1> HIDE DEF a1, b1, a2, b2, a3, b3, a4, b4, a5, b5, a6, b6, a7, b7, a8, b8
<1>3. a8 = b8 => a = b
  <2>1. a8 = b8 => a4 = b4
    BY <1>2, CrcBitInjective DEF a5, b5, a6, b6, a7, b7, a8, b8
  <2>2. a4 = b4 => a = b
    BY <1>2, CrcBitInjective DEF a1, b1, a2, b2, a3, b3, a4, b4
  <2> QED
    BY <2>1, <2>2
<1>4. ASSUME Alike(a8, b8, 0..7)
      PROVE  Alike(a, b, 8..15)
  <2> DEFINE P(k) == (0..(k - 1)) \cup ((8 + k)..15)
  <2>1. P(8) = 0..7 /\ P(0) = 8..15
    OBVIOUS
  <2>2. ASSUME NEW c \in Register, NEW d \in Register, NEW k \in 1..8,
               Alike(CrcBit[c], CrcBit[d], P(k))
        PROVE  Alike(c, d, P(k - 1))
    <3>1. k - 1 \in 0..7 /\ (k - 1) + 9 = 8 + k /\ 8 + (k - 1) = 7 + k
      OBVIOUS
    <3>2. /\ P(k) = (0..(k - 1)) \cup ((9 + (k - 1))..15)
          /\ P(k - 1) = (0..((k - 1) - 1)) \cup ((8 + (k - 1))..15)
      BY <3>1
    <3> QED
      BY <2>2, <3>1, <3>2, AlikeBack
  <2> HIDE DEF P
  <2>3. Alike(a7, b7, P(7))
    <3>1. Alike(CrcBit[a7], CrcBit[b7], P(8))
      BY <1>4, <2>1 DEF a8, b8
    <3>2. Alike(a7, b7, P(8 - 1))
      BY <1>2, <2>2, <3>1
    <3> QED
      BY <3>2
  <2>4. Alike(a6, b6, P(6))
    BY <1>2, <2>2, <2>3 DEF a7, b7
  <2>5. Alike(a5, b5, P(5))
    BY <1>2, <2>2, <2>4 DEF a6, b6
  <2>6. Alike(a4, b4, P(4))
    BY <1>2, <2>2, <2>5 DEF a5, b5
  <2>7. Alike(a3, b3, P(3))
    BY <1>2, <2>2, <2>6 DEF a4, b4
  <2>8. Alike(a2, b2, P(2))
    BY <1>2, <2>2, <2>7 DEF a3, b3
  <2>9. Alike(a1, b1, P(1))
    BY <1>2, <2>2, <2>8 DEF a2, b2
  <2>10. Alike(a, b, P(0))
    BY <2>2, <2>9 DEF a1, b1
  <2> QED
    BY <2>1, <2>10
<1> QED
  BY <1>1, <1>2, <1>3, <1>4

------------------------------------------------------------------------------
\* A byte is the sum of its bits.
LEMMA BitsTell ==
  ASSUME NEW x \in 0..255, NEW y \in 0..255, \A i \in 0..7 : BitOf(x, i) = BitOf(y, i)
  PROVE  x = y
<1>1. /\ x % 2 = y % 2 /\ (x \div 2) % 2 = (y \div 2) % 2
      /\ (x \div 4) % 2 = (y \div 4) % 2 /\ (x \div 8) % 2 = (y \div 8) % 2
      /\ (x \div 16) % 2 = (y \div 16) % 2 /\ (x \div 32) % 2 = (y \div 32) % 2
      /\ (x \div 64) % 2 = (y \div 64) % 2 /\ (x \div 128) % 2 = (y \div 128) % 2
  <2>1. \A i \in 0..7 : BitOf(x, i) = BitOf(y, i)
    OBVIOUS
  <2> QED
    BY <2>1, SMTT(30) DEF BitOf
<1> QED
  BY <1>1, SMTT(60)

LEMMA BitTyped ==
  ASSUME NEW x \in 0..255, NEW i \in 0..7
  PROVE  BitOf(x, i) \in Bit
BY DEF BitOf, Bit

LEMMA TakeInTyped ==
  ASSUME NEW a \in Register, NEW x \in 0..255
  PROVE  TakeIn(a, x) \in Register
<1>1. ASSUME NEW i \in 0..15
      PROVE  (IF i < 8 THEN a[i] ELSE Xor(a[i], BitOf(x, i - 8))) \in Bit
  <2>1. a[i] \in Bit
    BY DEF Register
  <2>2. CASE i < 8
    BY <2>1, <2>2
  <2>3. CASE i \in 8..15
    <3>1. i - 8 \in 0..7
      BY <2>3
    <3>2. BitOf(x, i - 8) \in Bit
      BY <3>1, BitTyped
    <3> QED
      BY <2>1, <2>3, <3>2, XorCancels
  <2> QED
    BY <2>2, <2>3
<1> QED
  BY <1>1 DEF TakeIn, Register

LEMMA TakenIn ==
  ASSUME NEW a \in Register, NEW b \in Register, NEW x \in 0..255, NEW y \in 0..255
  PROVE  /\ Alike(TakeIn(a, x), TakeIn(b, y), 0..7) => Alike(a, b, 0..7)
         /\ TakeIn(a, x) = TakeIn(b, x) => a = b
         /\ Alike(TakeIn(a, x), TakeIn(a, y), 8..15) => x = y
<1>1. \A i \in 0..15 : a[i] \in Bit /\ b[i] \in Bit
  BY DEF Register
<1>2. \A i \in 8..15 : BitOf(x, i - 8) \in Bit /\ BitOf(y, i - 8) \in Bit
  <2>1. \A i \in 8..15 : i - 8 \in 0..7
    OBVIOUS
  <2> QED
    BY <2>1, BitTyped
<1>4. Alike(TakeIn(a, x), TakeIn(b, y), 0..7) => Alike(a, b, 0..7)
  BY DEF TakeIn, Alike
<1>5. ASSUME TakeIn(a, x) = TakeIn(b, x)
      PROVE  a = b
  <2>1. ASSUME NEW i \in 0..15
        PROVE  a[i] = b[i]
    <3>1. TakeIn(a, x)[i] = TakeIn(b, x)[i]
      BY <1>5
    <3>2. CASE i < 8
      BY <3>1, <3>2 DEF TakeIn
    <3>3. CASE i \in 8..15
      <4>1. Xor(a[i], BitOf(x, i - 8)) = Xor(b[i], BitOf(x, i - 8))
        BY <3>1, <3>3 DEF TakeIn
      <4> QED
        BY <1>1, <1>2, <3>3, <4>1, XorCancels
    <3> QED
      BY <3>2, <3>3
  <2> QED
    BY <2>1 DEF Register
<1>6. ASSUME Alike(TakeIn(a, x), TakeIn(a, y), 8..15)
      PROVE  x = y
  <2>1. ASSUME NEW i \in 0..7
        PROVE  BitOf(x, i) = BitOf(y, i)
    <3> DEFINE j == i + 8
    <3>1. j \in 8..15 /\ j - 8 = i
      OBVIOUS
    <3>2. TakeIn(a, x)[j] = TakeIn(a, y)[j]
      BY <1>6, <3>1 DEF Alike
    <3>3. Xor(a[j], BitOf(x, i)) = Xor(a[j], BitOf(y, i))
      BY <3>1, <3>2 DEF TakeIn
    <3>4. a[j] \in Bit /\ BitOf(x, i) \in Bit /\ BitOf(y, i) \in Bit
      BY <1>1, <3>1, BitTyped
    <3> HIDE DEF j
    <3> QED
      BY <3>3, <3>4, XorCancels
  <2> QED
    BY <2>1, BitsTell
<1> QED
  BY <1>4, <1>5, <1>6

\* One byte, as the loop takes it.
LEMMA CrcByteTyped ==
  ASSUME NEW a \in Register, NEW x \in 0..255
  PROVE  CrcByte(a, x) \in Register
BY TakeInTyped, EightBitsBack DEF CrcByte

LEMMA CrcByteInjective ==
  ASSUME NEW a \in Register, NEW b \in Register, NEW x \in 0..255,
         CrcByte(a, x) = CrcByte(b, x)
  PROVE  a = b
<1> DEFINE ax == TakeIn(a, x)  bx == TakeIn(b, x)
<1>1. ax \in Register /\ bx \in Register
  BY TakeInTyped
<1>2. ax = bx => a = b
  BY TakenIn
<1>3. EightBits[ax] = EightBits[bx]
  BY DEF CrcByte
<1> HIDE DEF ax, bx
<1> QED
  BY <1>1, <1>2, <1>3, EightBitsBack

LEMMA LowOctetTold ==
  ASSUME NEW a \in Register, NEW b \in Register, NEW x \in 0..255, NEW y \in 0..255,
         CrcByte(a, x) = CrcByte(b, y)
  PROVE  Alike(a, b, 0..7)
<1> DEFINE ax == TakeIn(a, x)  by == TakeIn(b, y)
<1>1. ax \in Register /\ by \in Register
  BY TakeInTyped
<1>2. Alike(ax, by, 0..7) => Alike(a, b, 0..7)
  BY TakenIn
<1>3. EightBits[ax] = EightBits[by]
  BY DEF CrcByte
<1> HIDE DEF ax, by
<1>4. ax = by
  BY <1>1, <1>3, EightBitsBack
<1> QED
  BY <1>2, <1>4 DEF Alike

LEMMA ByteTold ==
  ASSUME NEW a \in Register, NEW x \in 0..255, NEW y \in 0..255,
         Alike(CrcByte(a, x), CrcByte(a, y), 0..7)
  PROVE  x = y
<1> DEFINE ax == TakeIn(a, x)  ay == TakeIn(a, y)
<1>1. ax \in Register /\ ay \in Register
  BY TakeInTyped
<1>2. Alike(ax, ay, 8..15) => x = y
  BY TakenIn
<1>3. Alike(EightBits[ax], EightBits[ay], 0..7)
  BY DEF CrcByte
<1> HIDE DEF ax, ay
<1> QED
  BY <1>1, <1>2, <1>3, EightBitsBack

\* Two bytes after each other: the register tells both.
SameAfterTwo(a, x1, x2, y1, y2) ==
  CrcByte(CrcByte(a, x1), x2) = CrcByte(CrcByte(a, y1), y2)

LEMMA TwoBytesTold ==
  ASSUME NEW a \in Register,
         NEW x1 \in 0..255, NEW x2 \in 0..255, NEW y1 \in 0..255, NEW y2 \in 0..255,
         SameAfterTwo(a, x1, x2, y1, y2)
  PROVE  x1 = y1 /\ x2 = y2
<1> DEFINE b == CrcByte(a, x1)  c == CrcByte(a, y1)
<1>1. b \in Register /\ c \in Register
  BY CrcByteTyped
<1>2. Alike(b, c, 0..7) => x1 = y1
  BY ByteTold
<1>3. x1 = y1 => b = c
  OBVIOUS
<1>4. CrcByte(b, x2) = CrcByte(c, y2)
  BY DEF SameAfterTwo
<1> HIDE DEF b, c
<1>5. Alike(b, c, 0..7)
  <2>1. CrcByte(b, x2) = CrcByte(c, y2) => Alike(b, c, 0..7)
    BY <1>1, LowOctetTold
  <2> QED
    BY <1>4, <2>1
<1>6. Alike(CrcByte(b, x2), CrcByte(b, y2), 0..7)
  BY <1>2, <1>3, <1>4, <1>5 DEF Alike
<1>7. x2 = y2
  BY <1>1, <1>6, ByteTold
<1> QED
  BY <1>2, <1>5, <1>7

------------------------------------------------------------------------------
LEMMA RegisterStep ==
  ASSUME NEW s \in Seq(0..255)
  PROVE  /\ Registers(s)[0] = Crc16Start
         /\ \A n \in 1..Len(s) : Registers(s)[n] = CrcByte(Registers(s)[n - 1], s[n])
         /\ \A n \in 0..Len(s) : Registers(s)[n] \in Register
<1>1. Len(s) \in Nat /\ \A n \in 1..Len(s) : s[n] \in 0..255
  BY LenProperties, ElementOfSeq
<1> DEFINE r == Registers(s)
<1>2. Recorded(s, r, Len(s))
  BY <1>1, RegistersRecorded
<1> HIDE DEF r
<1>3. /\ r[0] = Crc16Start
      /\ \A n \in 1..Len(s) : r[n] = CrcByte(r[n - 1], s[n])
  <2> DEFINE step(n) == IF n = 0 THEN Crc16Start ELSE CrcByte(r[n - 1], s[n])
  <2>1. \A n \in 0..Len(s) : r[n] = step(n)
    BY <1>2 DEF Recorded
  <2>2. 0 \in 0..Len(s) /\ \A n \in 1..Len(s) : n \in 0..Len(s) /\ n # 0
    BY <1>1
  <2>3. step(0) = Crc16Start /\ \A n \in 1..Len(s) : step(n) = CrcByte(r[n - 1], s[n])
    BY <2>2
  <2> HIDE DEF step
  <2> QED
    BY <2>1, <2>2, <2>3
<1> DEFINE S == {n \in Nat : n \in 0..Len(s) => r[n] \in Register}
<1>4. 0 \in S
  BY <1>3 DEF Crc16Start, Register, Bit
<1>5. ASSUME NEW n \in Nat, n \in S
      PROVE  n + 1 \in S
  <2> SUFFICES ASSUME n + 1 \in 0..Len(s) PROVE r[n + 1] \in Register
    OBVIOUS
  <2>1. n \in 0..Len(s) /\ n + 1 \in 1..Len(s) /\ (n + 1) - 1 = n
    BY <1>1
  <2>2. r[n] \in Register
    BY <1>5, <2>1
  <2>3. r[n + 1] = CrcByte(r[n], s[n + 1])
    BY <1>3, <2>1
  <2> QED
    BY <1>1, <2>1, <2>2, <2>3, CrcByteTyped
<1>6. Nat \subseteq S
  <2> HIDE DEF S
  <2> QED
    BY <1>4, <1>5, SetInduction
<1>7. ASSUME NEW n \in 0..Len(s)
      PROVE  r[n] \in Register
  BY <1>1, <1>6
<1> QED
  BY <1>3, <1>7 DEF r

\* Up to the damage the registers of two runs are the same,
LEMMA SameBefore ==
  ASSUME NEW s \in Seq(0..255), NEW t \in Seq(0..255), Len(s) = Len(t),
         NEW m \in 0..Len(s), \A i \in 1..m : s[i] = t[i]
  PROVE  Registers(s)[m] = Registers(t)[m]
<1> DEFINE S == {n \in Nat : n <= m => Registers(s)[n] = Registers(t)[n]}
<1>1. m \in Nat /\ Len(s) \in Nat
  BY LenProperties
<1>2. 0 \in S
  BY RegisterStep
<1>3. ASSUME NEW n \in Nat, n \in S
      PROVE  n + 1 \in S
  <2> SUFFICES ASSUME n + 1 <= m PROVE Registers(s)[n + 1] = Registers(t)[n + 1]
    OBVIOUS
  <2> DEFINE k == n + 1
  <2>1. k \in 1..Len(s) /\ k \in 1..Len(t) /\ k - 1 = n /\ k \in 1..m /\ n <= m
    BY <1>1
  <2>2. Registers(s)[n] = Registers(t)[n]
    BY <1>3, <2>1
  <2> HIDE DEF k
  <2>3. Registers(s)[k] = CrcByte(Registers(s)[n], s[k])
    BY <2>1, RegisterStep
  <2>4. Registers(t)[k] = CrcByte(Registers(t)[n], t[k])
    BY <2>1, RegisterStep
  <2>5. Registers(s)[k] = Registers(t)[k]
    BY <2>1, <2>2, <2>3, <2>4
  <2> QED
    BY <2>5 DEF k
<1> HIDE DEF S
<1>4. m \in S
  BY <1>1, <1>2, <1>3, SetInduction
<1> QED
  BY <1>1, <1>4 DEF S

\* and once they differ, bytes that are the same never bring them together again.
LEMMA ApartAfter ==
  ASSUME NEW s \in Seq(0..255), NEW t \in Seq(0..255), Len(s) = Len(t),
         NEW m \in 0..Len(s), \A i \in (m + 1)..Len(s) : s[i] = t[i],
         Registers(s)[m] # Registers(t)[m]
  PROVE  Registers(s)[Len(s)] # Registers(t)[Len(t)]
<1> DEFINE S == {n \in Nat : m + n <= Len(s) => Registers(s)[m + n] # Registers(t)[m + n]}
<1>1. m \in Nat /\ Len(s) \in Nat
  BY LenProperties
<1>2. 0 \in S
  BY <1>1
<1>3. ASSUME NEW n \in Nat, n \in S
      PROVE  n + 1 \in S
  <2> SUFFICES ASSUME m + (n + 1) <= Len(s)
               PROVE  Registers(s)[m + (n + 1)] # Registers(t)[m + (n + 1)]
    OBVIOUS
  <2> DEFINE k == m + (n + 1)  j == m + n
  <2>1. /\ k \in 1..Len(s) /\ k \in 1..Len(t) /\ k - 1 = j /\ k \in (m + 1)..Len(s)
        /\ j \in 0..Len(s) /\ j \in 0..Len(t) /\ j <= Len(s)
    BY <1>1
  <2>2. Registers(s)[j] # Registers(t)[j]
    BY <1>3, <2>1
  <2> HIDE DEF k, j
  <2>3. /\ Registers(s)[k] = CrcByte(Registers(s)[j], s[k])
        /\ Registers(s)[j] \in Register
    BY <2>1, RegisterStep
  <2>4. /\ Registers(t)[k] = CrcByte(Registers(t)[j], t[k])
        /\ Registers(t)[j] \in Register
    BY <2>1, RegisterStep
  <2>5. s[k] = t[k] /\ s[k] \in 0..255
    BY <2>1, ElementOfSeq
  <2>6. CrcByte(Registers(s)[j], s[k]) = CrcByte(Registers(t)[j], s[k])
          => Registers(s)[j] = Registers(t)[j]
    BY <2>3, <2>4, <2>5, CrcByteInjective
  <2>7. Registers(s)[k] # Registers(t)[k]
    BY <2>2, <2>3, <2>4, <2>5, <2>6
  <2> QED
    BY <2>7 DEF k
<1> DEFINE d == Len(s) - m
<1>4. d \in Nat /\ m + d = Len(s)
  BY <1>1
<1> HIDE DEF S, d
<1>5. d \in S
  BY <1>2, <1>3, <1>4, SetInduction
<1> QED
  BY <1>1, <1>4, <1>5 DEF S

------------------------------------------------------------------------------
LEMMA LowestBit ==
  ASSUME NEW p \in Bit, NEW q \in Bit, NEW x \in Int, NEW y \in Int, p + 2 * x = q + 2 * y
  PROVE  p = q /\ x = y
BY DEF Bit

\* Four bits and what stands above them.
Four(p1, p2, p3, p4, x) == p1 + 2 * p2 + 4 * p3 + 8 * p4 + 16 * x

SameFours(p1, p2, p3, p4, x, q1, q2, q3, q4, y) ==
  Four(p1, p2, p3, p4, x) = Four(q1, q2, q3, q4, y)

\* The lowest bit is taken out first.
LEMMA BitByBit ==
  ASSUME NEW p1 \in Bit, NEW p2 \in Bit, NEW p3 \in Bit, NEW p4 \in Bit,
         NEW q1 \in Bit, NEW q2 \in Bit, NEW q3 \in Bit, NEW q4 \in Bit,
         NEW x \in Int, NEW y \in Int,
         SameFours(p1, p2, p3, p4, x, q1, q2, q3, q4, y)
  PROVE  p1 = q1 /\ p2 = q2 /\ p3 = q3 /\ p4 = q4 /\ x = y
<1>1. Bit \subseteq Int
  BY DEF Bit
<1> DEFINE x3 == p4 + 2 * x   y3 == q4 + 2 * y
           x2 == p3 + 2 * x3  y2 == q3 + 2 * y3
           x1 == p2 + 2 * x2  y1 == q2 + 2 * y2
<1>2. x3 \in Int /\ y3 \in Int /\ x2 \in Int /\ y2 \in Int /\ x1 \in Int /\ y1 \in Int
  BY <1>1
<1>3. p1 + 2 * x1 = q1 + 2 * y1
  BY <1>1 DEF Four, SameFours
<1>4. x1 = p2 + 2 * x2 /\ y1 = q2 + 2 * y2
  OBVIOUS
<1>5. x2 = p3 + 2 * x3 /\ y2 = q3 + 2 * y3
  OBVIOUS
<1>6. x3 = p4 + 2 * x /\ y3 = q4 + 2 * y
  OBVIOUS
<1> HIDE DEF x1, y1, x2, y2, x3, y3
<1>7. p1 = q1 /\ x1 = y1
  BY <1>2, <1>3, LowestBit
<1>8. p2 = q2 /\ x2 = y2
  BY <1>2, <1>4, <1>7, LowestBit
<1>9. p3 = q3 /\ x3 = y3
  BY <1>2, <1>5, <1>8, LowestBit
<1>10. p4 = q4 /\ x = y
  BY <1>6, <1>9, LowestBit
<1> QED
  BY <1>7, <1>8, <1>9, <1>10

LEMMA OctetTyped ==
  ASSUME NEW a \in Register, NEW k \in {0, 8}
  PROVE  OctetAt(a, k) \in 0..255
<1>1. \A i \in 0..15 : a[i] \in Bit
  BY DEF Register
<1>2. /\ a[k] \in Bit /\ a[k + 1] \in Bit /\ a[k + 2] \in Bit /\ a[k + 3] \in Bit
      /\ a[k + 4] \in Bit /\ a[k + 5] \in Bit /\ a[k + 6] \in Bit /\ a[k + 7] \in Bit
  BY <1>1
<1> QED
  BY <1>2 DEF OctetAt, Bit

LEMMA OctetTells ==
  ASSUME NEW a \in Register, NEW b \in Register, NEW k \in {0, 8},
         OctetAt(a, k) = OctetAt(b, k)
  PROVE  Alike(a, b, k..(k + 7))
<1>1. \A i \in 0..15 : a[i] \in Bit /\ b[i] \in Bit
  BY DEF Register
<1>2. /\ a[k] \in Bit /\ a[k + 1] \in Bit /\ a[k + 2] \in Bit /\ a[k + 3] \in Bit
      /\ b[k] \in Bit /\ b[k + 1] \in Bit /\ b[k + 2] \in Bit /\ b[k + 3] \in Bit
  BY <1>1
<1>3. /\ a[k + 4] \in Bit /\ a[k + 5] \in Bit /\ a[k + 6] \in Bit /\ a[k + 7] \in Bit
      /\ b[k + 4] \in Bit /\ b[k + 5] \in Bit /\ b[k + 6] \in Bit /\ b[k + 7] \in Bit
  BY <1>1
<1> DEFINE p5 == a[k + 4]  p6 == a[k + 5]  p7 == a[k + 6]  p8 == a[k + 7]
           q5 == b[k + 4]  q6 == b[k + 5]  q7 == b[k + 6]  q8 == b[k + 7]
           x == p5 + 2 * p6 + 4 * p7 + 8 * p8
           y == q5 + 2 * q6 + 4 * q7 + 8 * q8
<1>4. /\ OctetAt(a, k) = Four(a[k], a[k + 1], a[k + 2], a[k + 3], x)
      /\ OctetAt(b, k) = Four(b[k], b[k + 1], b[k + 2], b[k + 3], y)
  BY <1>2, <1>3 DEF OctetAt, Bit, Four
<1>bits. /\ p5 \in Bit /\ p6 \in Bit /\ p7 \in Bit /\ p8 \in Bit
         /\ q5 \in Bit /\ q6 \in Bit /\ q7 \in Bit /\ q8 \in Bit
  BY <1>3
<1> HIDE DEF p5, p6, p7, p8, q5, q6, q7, q8
<1>5. x \in Int /\ y \in Int
  BY <1>bits DEF Bit
<1>6. x = y => p5 = q5 /\ p6 = q6 /\ p7 = q7 /\ p8 = q8
  <2>1. x = Four(p5, p6, p7, p8, 0)
    BY <1>bits DEF Bit, Four
  <2>2. y = Four(q5, q6, q7, q8, 0)
    BY <1>bits DEF Bit, Four
  <2>3. 0 \in Int
    OBVIOUS
  <2> HIDE DEF x, y
  <2> QED
    <3>1. x = y => SameFours(p5, p6, p7, p8, 0, q5, q6, q7, q8, 0)
      BY <2>1, <2>2 DEF SameFours
    <3> QED
      BY <1>bits, <2>3, <3>1, BitByBit
<1> HIDE DEF x, y
<1>7. /\ a[k] = b[k] /\ a[k + 1] = b[k + 1] /\ a[k + 2] = b[k + 2] /\ a[k + 3] = b[k + 3]
      /\ x = y
  <2> DEFINE p1 == a[k]  p2 == a[k + 1]  p3 == a[k + 2]  p4 == a[k + 3]
             q1 == b[k]  q2 == b[k + 1]  q3 == b[k + 2]  q4 == b[k + 3]
  <2>1. SameFours(p1, p2, p3, p4, x, q1, q2, q3, q4, y)
    BY <1>4 DEF SameFours
  <2>2. /\ p1 \in Bit /\ p2 \in Bit /\ p3 \in Bit /\ p4 \in Bit
        /\ q1 \in Bit /\ q2 \in Bit /\ q3 \in Bit /\ q4 \in Bit
    BY <1>2
  <2> HIDE DEF p1, p2, p3, p4, q1, q2, q3, q4
  <2>3. p1 = q1 /\ p2 = q2 /\ p3 = q3 /\ p4 = q4 /\ x = y
    BY <1>5, <2>1, <2>2, BitByBit
  <2> QED
    BY <2>3 DEF p1, p2, p3, p4, q1, q2, q3, q4
<1>8. ASSUME NEW i \in k..(k + 7)
      PROVE  a[i] = b[i]
  <2>1. i \in {k, k + 1, k + 2, k + 3, k + 4, k + 5, k + 6, k + 7}
    OBVIOUS
  <2> QED
    BY <1>6, <1>7, <2>1 DEF p5, p6, p7, p8, q5, q6, q7, q8
<1> QED
  BY <1>8 DEF Alike

LEMMA RegistersEqual ==
  ASSUME NEW a \in Register, NEW b \in Register, Alike(a, b, 0..15)
  PROVE  a = b
BY DEF Register, Alike

LEMMA LastRegister ==
  ASSUME NEW s \in Seq(0..255)
  PROVE  Registers(s)[Len(s)] \in Register
<1>1. Len(s) \in 0..Len(s)
  BY LenProperties
<1> QED
  BY <1>1, RegisterStep

Joined(low, high) == low + 256 * high

SameOctets(w, x, y, z) == Joined(w, x) = Joined(y, z)

LEMMA JoinedTells ==
  ASSUME NEW w \in 0..255, NEW x \in 0..255, NEW y \in 0..255, NEW z \in 0..255,
         SameOctets(w, x, y, z)
  PROVE  w = y /\ x = z
<1>1. w + 256 * x = y + 256 * z
  BY DEF SameOctets, Joined
<1> QED
  BY <1>1

\* The CRC is a number of sixteen bits,
LEMMA CrcNumber ==
  ASSUME NEW s \in Seq(0..255)
  PROVE  Crc16Ccitt(s) \in Nat /\ Crc16Ccitt(s) <= 65535
<1> DEFINE a == Registers(s)[Len(s)]
<1>1. OctetAt(a, 0) \in 0..255 /\ OctetAt(a, 8) \in 0..255
  BY LastRegister, OctetTyped
<1>2. Crc16Ccitt(s) = Joined(OctetAt(a, 0), OctetAt(a, 8))
  BY DEF Crc16Ccitt, Joined
<1> DEFINE w == OctetAt(a, 0)  x == OctetAt(a, 8)
<1>3. w \in 0..255 /\ x \in 0..255 /\ Crc16Ccitt(s) = Joined(w, x)
  BY <1>1, <1>2
<1> HIDE DEF a, w, x
<1>4. Crc16Ccitt(s) = w + 256 * x
  BY <1>3 DEF Joined
<1> QED
  BY <1>3, <1>4

\* and tells the register.
LEMMA CrcTells ==
  ASSUME NEW s \in Seq(0..255), NEW t \in Seq(0..255), Crc16Ccitt(s) = Crc16Ccitt(t)
  PROVE  Registers(s)[Len(s)] = Registers(t)[Len(t)]
<1> DEFINE a == Registers(s)[Len(s)]  b == Registers(t)[Len(t)]
<1>1. a \in Register /\ b \in Register
  BY LastRegister
<1>2. SameOctets(OctetAt(a, 0), OctetAt(a, 8), OctetAt(b, 0), OctetAt(b, 8))
  BY DEF Crc16Ccitt, Joined, SameOctets
<1> HIDE DEF a, b
<1>3. /\ OctetAt(a, 0) \in 0..255 /\ OctetAt(b, 0) \in 0..255
      /\ OctetAt(a, 8) \in 0..255 /\ OctetAt(b, 8) \in 0..255
  BY <1>1, OctetTyped
<1>4. OctetAt(a, 0) = OctetAt(b, 0) /\ OctetAt(a, 8) = OctetAt(b, 8)
  BY <1>2, <1>3, JoinedTells
<1>5. Alike(a, b, 0..(0 + 7)) /\ Alike(a, b, 8..(8 + 7))
  BY <1>1, <1>4, OctetTells
<1>6. Alike(a, b, 0..15)
  <2>1. \A i \in 0..15 : i \in 0..(0 + 7) \/ i \in 8..(8 + 7)
    OBVIOUS
  <2> QED
    BY <1>5, <2>1 DEF Alike
<1>7. a = b
  BY <1>1, <1>6, RegistersEqual
<1> QED
  BY <1>7 DEF a, b

------------------------------------------------------------------------------
(***************************************************************************)
(* Damage.                                                                 *)
(***************************************************************************)
\* The firmware's CRC field: crc16 of the body, low byte first.
FirmwareCrc ==
  /\ ByteBase = 256 /\ CrcSize = 2
  /\ \A body \in Seq(0..255) : Crc(body) = WriteU16(Crc16Ccitt(body))

\* t is s with other bytes at i, at i + 1 or at both.
DamagedAt(s, t, i) ==
  /\ Len(t) = Len(s) /\ t # s
  /\ \A j \in 1..Len(s) : j \notin {i, i + 1} => t[j] = s[j]

BodyPart(s) == SubSeq(s, 1, Len(s) - 2)

LEMMA BodyPartIs ==
  ASSUME NEW s \in Seq(0..255), Len(s) >= 2
  PROVE  /\ BodyPart(s) \in Seq(0..255)
         /\ Len(BodyPart(s)) = Len(s) - 2
         /\ \A j \in 1..(Len(s) - 2) : BodyPart(s)[j] = s[j]
<1> DEFINE n == Len(s) - 2
<1>1. n \in Nat /\ 1 \in Int /\ \A j \in 1..n : j \in 1..Len(s) /\ 1 + j - 1 = j
  BY LenProperties
<1>2. \A j \in 1..n : s[j] \in 0..255
  BY <1>1, ElementOfSeq
<1>3. /\ SubSeq(s, 1, n) \in Seq(0..255)
      /\ Len(SubSeq(s, 1, n)) = IF 1 <= n THEN n - 1 + 1 ELSE 0
      /\ \A j \in 1..(n - 1 + 1) : SubSeq(s, 1, n)[j] = s[1 + j - 1]
  <2> HIDE DEF n
  <2> QED
    BY <1>1, <1>2, SubSeqProperties
<1> HIDE DEF n
<1>4. BodyPart(s) = SubSeq(s, 1, n)
  BY DEF BodyPart, n
<1>5. /\ (IF 1 <= n THEN n - 1 + 1 ELSE 0) = n /\ n - 1 + 1 = n
  BY <1>1
<1> QED
  BY <1>1, <1>3, <1>4, <1>5 DEF n

\* The last two bytes of a frame that decodes are the CRC of those before them.
LEMMA CrcStands ==
  ASSUME FirmwareCrc, NEW s \in Seq(0..255), DecodeResult(s) = "OK"
  PROVE  /\ Len(s) >= 7
         /\ s[Len(s) - 1] = Crc16Ccitt(BodyPart(s)) % 256
         /\ s[Len(s)] = (Crc16Ccitt(BodyPart(s)) \div 256) % 256
<1> DEFINE n == Len(s)  c == Crc16Ccitt(BodyPart(s))
<1>1. n \in Nat /\ n >= 7
  BY LenProperties, WireAssumption DEF DecodeResult, FirmwareCrc
<1>2. SubSeq(s, n - 1, n) = SubSeq(Crc(BodyPart(s)), 1, 2)
  <2>1. CrcSize = 2
    BY DEF FirmwareCrc
  <2>2. n - 2 + 1 = n - 1
    BY <1>1
  <2>3. SubSeq(s, n - 2 + 1, n) = SubSeq(Crc(SubSeq(s, 1, n - 2)), 1, 2)
    BY <2>1 DEF DecodeResult, FrameCrc
  <2> QED
    BY <2>2, <2>3 DEF BodyPart
<1>3. Crc(BodyPart(s)) = <<c % 256, (c \div 256) % 256>>
  <2>1. BodyPart(s) \in Seq(0..255)
    BY <1>1, BodyPartIs
  <2> QED
    BY <2>1 DEF FirmwareCrc, WriteU16
<1>4. SubSeq(s, n - 1, n)[1] = s[n - 1] /\ SubSeq(s, n - 1, n)[2] = s[n]
  BY <1>1
<1>5. /\ SubSeq(Crc(BodyPart(s)), 1, 2)[1] = c % 256
      /\ SubSeq(Crc(BodyPart(s)), 1, 2)[2] = (c \div 256) % 256
  <2> HIDE DEF c
  <2> QED
    BY <1>3
<1> QED
  BY <1>1, <1>2, <1>4, <1>5

\* Two bytes tell a number below 65536.
SameHalves(c, d) == c % 256 = d % 256 /\ (c \div 256) % 256 = (d \div 256) % 256

LEMMA SixteenBits ==
  ASSUME NEW c \in Nat, c <= 65535, NEW d \in Nat, d <= 65535, SameHalves(c, d)
  PROVE  c = d
BY DEF SameHalves

\* A change within two bytes next to each other changes the CRC.
LEMMA CrcDiffers ==
  ASSUME NEW s \in Seq(0..255), NEW t \in Seq(0..255), NEW i \in 1..(Len(s) - 1),
         DamagedAt(s, t, i)
  PROVE  Crc16Ccitt(s) # Crc16Ccitt(t)
<1> SUFFICES ASSUME Crc16Ccitt(s) = Crc16Ccitt(t)
             PROVE  FALSE
  OBVIOUS
<1> DEFINE k == i + 1  m == i - 1  a == Registers(s)[m]
<1>1. /\ Len(s) \in Nat /\ Len(t) = Len(s) /\ i \in 1..Len(s) /\ k \in 1..Len(s)
      /\ m \in 0..Len(s) /\ k \in 0..Len(s) /\ k - 1 = i /\ i - 1 = m
  BY LenProperties DEF DamagedAt
<1>2. \A j \in 1..Len(s) : j \notin {i, k} => s[j] = t[j]
  BY DEF DamagedAt
<1>3. /\ \A j \in 1..m : s[j] = t[j]
      /\ \A j \in (k + 1)..Len(s) : s[j] = t[j]
  <2>1. \A j \in 1..m : j \in 1..Len(s) /\ j \notin {i, k}
    BY <1>1
  <2>2. \A j \in (k + 1)..Len(s) : j \in 1..Len(s) /\ j \notin {i, k}
    BY <1>1
  <2> QED
    BY <1>2, <2>1, <2>2
<1> HIDE DEF k, m
<1>4. a = Registers(t)[m] /\ a \in Register
  <2>1. a = Registers(t)[m]
    BY <1>1, <1>3, SameBefore
  <2>2. a \in Register
    BY <1>1, RegisterStep
  <2> QED
    BY <2>1, <2>2
<1>5. Registers(s)[k] = Registers(t)[k]
  <2>1. Registers(s)[Len(s)] = Registers(t)[Len(t)]
    BY CrcTells
  <2> QED
    BY <1>1, <1>3, <2>1, ApartAfter
<1>6. Registers(s)[k] = CrcByte(CrcByte(a, s[i]), s[k])
  <2>1. \A n \in 1..Len(s) : Registers(s)[n] = CrcByte(Registers(s)[n - 1], s[n])
    BY RegisterStep
  <2> QED
    BY <1>1, <2>1
<1>7. Registers(t)[k] = CrcByte(CrcByte(a, t[i]), t[k])
  <2>1. \A n \in 1..Len(t) : Registers(t)[n] = CrcByte(Registers(t)[n - 1], t[n])
    BY RegisterStep
  <2> QED
    BY <1>1, <1>4, <2>1
<1> HIDE DEF a
<1>8. s[i] \in 0..255 /\ s[k] \in 0..255 /\ t[i] \in 0..255 /\ t[k] \in 0..255
  BY <1>1, ElementOfSeq
<1>9. s[i] = t[i] /\ s[k] = t[k]
  <2> DEFINE x1 == s[i]  x2 == s[k]  y1 == t[i]  y2 == t[k]
  <2>1. CrcByte(CrcByte(a, x1), x2) = CrcByte(CrcByte(a, y1), y2)
    BY <1>5, <1>6, <1>7
  <2>2. x1 \in 0..255 /\ x2 \in 0..255 /\ y1 \in 0..255 /\ y2 \in 0..255
    BY <1>8
  <2> HIDE DEF x1, x2, y1, y2
  <2>3. x1 = y1 /\ x2 = y2
    <3>1. SameAfterTwo(a, x1, x2, y1, y2)
      BY <2>1 DEF SameAfterTwo
    <3> QED
      BY <1>4, <2>2, <3>1, TwoBytesTold
  <2> QED
    BY <2>3 DEF x1, x2, y1, y2
<1>10. \A j \in 1..Len(s) : s[j] = t[j]
  BY <1>2, <1>9
<1>11. s = t
  BY <1>1, <1>10, SeqEqual
<1> QED
  BY <1>11 DEF DamagedAt

\* A frame that decodes does not decode any more when one byte of it, or two
\* bytes next to each other, have changed: oomwoo_decode_frame accepts no such
\* copy, whatever the frame.  The one pair left out is the last byte before the
\* CRC with the first byte of the CRC.
THEOREM DamageIsRejected ==
  ASSUME FirmwareCrc, NEW s \in Seq(0..255), NEW t \in Seq(0..255),
         DecodeResult(s) = "OK",
         NEW i \in 1..(Len(s) - 1), i # Len(s) - 2, DamagedAt(s, t, i)
  PROVE  DecodeResult(t) # "OK"
<1> SUFFICES ASSUME DecodeResult(t) = "OK"
             PROVE  FALSE
  OBVIOUS
<1> DEFINE n == Len(s)  bs == BodyPart(s)  bt == BodyPart(t)
<1>1. /\ n \in Nat /\ n >= 7 /\ Len(t) = n
      /\ s[n - 1] = Crc16Ccitt(bs) % 256 /\ s[n] = (Crc16Ccitt(bs) \div 256) % 256
      /\ t[n - 1] = Crc16Ccitt(bt) % 256 /\ t[n] = (Crc16Ccitt(bt) \div 256) % 256
  BY CrcStands, LenProperties DEF DamagedAt
<1>2. /\ bs \in Seq(0..255) /\ Len(bs) = n - 2 /\ \A j \in 1..(n - 2) : bs[j] = s[j]
      /\ bt \in Seq(0..255) /\ Len(bt) = n - 2 /\ \A j \in 1..(n - 2) : bt[j] = t[j]
  BY <1>1, BodyPartIs
<1>3. \A j \in 1..n : j \notin {i, i + 1} => t[j] = s[j]
  BY DEF DamagedAt
<1>4. s # t /\ i \in 1..(n - 1) /\ i # n - 2
  BY DEF DamagedAt
<1> HIDE DEF n, bs, bt
<1>5. CASE i = n - 1
  <2>1. \A j \in 1..(n - 2) : bt[j] = bs[j]
    <3>1. \A j \in 1..(n - 2) : j \in 1..n /\ j \notin {i, i + 1}
      BY <1>1, <1>5
    <3> QED
      BY <1>2, <1>3, <3>1
  <2>2. bt = bs
    BY <1>2, <2>1, SeqEqual
  <2>3. t[n - 1] = s[n - 1] /\ t[n] = s[n]
    BY <1>1, <2>2
  <2>4. \A j \in 1..n : t[j] = s[j]
    BY <1>1, <1>3, <1>5, <2>3
  <2>5. s = t
    BY <1>1, <2>4, SeqEqual DEF n
  <2> QED
    BY <1>4, <2>5
<1>6. CASE i # n - 1
  <2>1. i \in 1..(n - 3) /\ i + 1 \in 1..(n - 2) /\ n - 1 \notin {i, i + 1} /\ n \notin {i, i + 1}
        /\ n - 1 \in 1..n /\ n \in 1..n
    BY <1>1, <1>4, <1>6
  <2>2. t[n - 1] = s[n - 1] /\ t[n] = s[n]
    BY <1>3, <2>1
  <2>3. bt # bs
    <3> SUFFICES ASSUME bt = bs PROVE FALSE
      OBVIOUS
    <3>1. \A j \in 1..(n - 2) : t[j] = s[j]
      BY <1>2
    <3>2. \A j \in 1..n : t[j] = s[j]
      BY <1>1, <2>2, <3>1
    <3>3. s = t
      BY <1>1, <3>2, SeqEqual DEF n
    <3> QED
      BY <1>4, <3>3
  <2>4. DamagedAt(bs, bt, i)
    <3>1. \A j \in 1..(n - 2) : j \in 1..n
      BY <1>1
    <3> QED
      BY <1>2, <1>3, <2>3, <3>1 DEF DamagedAt
  <2>5. i \in 1..(Len(bs) - 1)
    BY <1>1, <1>2, <2>1
  <2>6. Crc16Ccitt(bs) # Crc16Ccitt(bt)
    BY <1>2, <2>4, <2>5, CrcDiffers
  <2> DEFINE c == Crc16Ccitt(bs)  d == Crc16Ccitt(bt)
  <2>7. SameHalves(c, d)
    BY <1>1, <2>2 DEF SameHalves
  <2>8. c \in Nat /\ c <= 65535 /\ d \in Nat /\ d <= 65535
    BY <1>2, CrcNumber
  <2> HIDE DEF c, d
  <2>9. c = d
    BY <2>7, <2>8, SixteenBits
  <2> QED
    BY <2>6, <2>9 DEF c, d
<1> QED
  BY <1>5, <1>6
==============================================================================
