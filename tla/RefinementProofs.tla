-------------------------- MODULE RefinementProofs --------------------------
(***************************************************************************)
(* The two refinements and the account of the line, for every frame        *)
(* geometry and every CRC.  The stream decoder implements FrameStream:     *)
(* what it finds at the head of its buffer decides alone which frame, if   *)
(* any, a sender can have meant by it.  The link implements CommandQueue:  *)
(* what has not been handed over is the rest of everything the CPU ever    *)
(* sent.  On a line that may bring anything, every byte is accounted for.  *)
(***************************************************************************)
EXTENDS DecoderRefinement, CommandLink, Reception, CpuIngressProofs

(***************************************************************************)
(* The two bytes of a length.                                              *)
(***************************************************************************)
LEMMA LengthOfBytes ==
  ASSUME NEW m \in Nat \ {0}, NEW lo \in 0..(m - 1), NEW hi \in 0..(m - 1)
  PROVE  /\ (lo + m * hi) % m = lo
         /\ ((lo + m * hi) \div m) % m = hi
  <1> DEFINE v == lo + m * hi
             q == v \div m
             r == v % m
  <1>1. m * hi \in Nat /\ v \in Nat /\ hi \in Nat
    BY ProductNat
  <1>2. q \in Nat /\ r \in 0..(m - 1) /\ v = m * q + r
    BY <1>1, DivMod
  <1>3. v = m * hi + lo
    BY <1>1
  <1> HIDE DEF q, r, v
  <1>4. r = lo
    BY <1>1, <1>2, <1>3, RemainderUnique
  <1>5. q = hi
    <2>1. m * q = m * hi /\ q \in Nat
      <3>1. m * q \in Nat
        BY <1>2, ProductNat
      <3> QED
        BY <1>1, <1>2, <1>3, <1>4, <3>1
    <2>2. CASE q < hi
      BY <1>1, <2>1, <2>2, NextMultiple
    <2>3. CASE hi < q
      BY <1>1, <2>1, <2>3, NextMultiple
    <2> QED
      BY <1>1, <2>1, <2>2, <2>3
  <1>6. hi % m = hi
    BY <1>1
  <1> QED
    BY <1>4, <1>5, <1>6 DEF q, r, v

LEMMA BytesOfLength ==
  ASSUME NEW m \in Nat \ {0}, NEW n \in Nat, n < m * m
  PROVE  (n % m) + m * ((n \div m) % m) = n
  <1> DEFINE q == n \div m
             r == n % m
  <1>1. q \in Nat /\ r \in 0..(m - 1) /\ n = m * q + r
    BY DivMod
  <1> HIDE DEF q, r
  <1>2. q < m
    <2> SUFFICES ASSUME m <= q PROVE FALSE
      BY <1>1
    <2>1. CASE q = m
      BY <1>1, <2>1, ProductNat
    <2>2. CASE m < q
      <3>1. m * m + m <= m * q
        BY <1>1, <2>2, NextMultiple
      <3>2. m * q \in Nat /\ m * m \in Nat
        BY <1>1, ProductNat
      <3> QED
        BY <1>1, <3>1, <3>2
    <2> QED
      BY <1>1, <2>1, <2>2
  <1>3. q % m = q
    BY <1>1, <1>2
  <1>4. r + m * q = n
    BY <1>1, ProductNat
  <1> QED
    BY <1>3, <1>4 DEF q, r

------------------------------------------------------------------------------
(***************************************************************************)
(* The frames a sender may have meant.                                     *)
(***************************************************************************)
FrameMeant(s, n) == EncodeFrame(FieldsOf(s), PayloadOf(s, n))

\* A function on the first m numbers is a sequence.
LEMMA FunctionIsSeq ==
  ASSUME NEW S, NEW m \in Nat, NEW f \in [1..m -> S]
  PROVE  f \in Seq(S) /\ Len(f) = m
  BY SeqDef

LEMMA PrefixOfPrefix ==
  ASSUME NEW S, NEW s \in Seq(S), NEW l \in 1..Len(s), NEW e \in 1..l
  PROVE  SubSeq(SubSeq(s, 1, l), 1, e) = SubSeq(s, 1, e)
  <1>1. /\ 1 \in 1..Len(s) /\ 1 \in 1..(l - 1 + 1) /\ e \in 1..(l - 1 + 1)
        /\ 1 + 1 - 1 = 1 /\ 1 + e - 1 = e
    BY LenProperties
  <1>2. SubSeq(SubSeq(s, 1, l), 1, e) = SubSeq(s, 1 + 1 - 1, 1 + e - 1)
    BY <1>1, SubSeqOfSubSeq
  <1> QED
    BY <1>1, <1>2

LEMMA PartsTyped ==
  ASSUME NEW s \in Seq(Byte), NEW n \in Nat
  PROVE  /\ FieldsOf(s) \in Seq(Byte) /\ Len(FieldsOf(s)) = HeaderSize - 5
         /\ PayloadOf(s, n) \in Seq(Byte) /\ Len(PayloadOf(s, n)) = n
         /\ HeaderSize - 5 \in Nat
  <1>1. HeaderSize - 5 \in Nat /\ Magic0 \in Byte /\ Len(s) \in Nat
    BY WireAssumption, LenProperties
  <1>2. FieldsOf(s) \in [1..(HeaderSize - 5) -> Byte]
    <2>1. ASSUME NEW i \in 1..(HeaderSize - 5)
          PROVE  (IF i + 3 <= Len(s) THEN s[i + 3] ELSE Magic0) \in Byte
      <3>1. i + 3 <= Len(s) => i + 3 \in 1..Len(s)
        BY <1>1
      <3> QED
        BY <1>1, <3>1, ElementOfSeq
    <2> QED
      BY <2>1 DEF FieldsOf
  <1>3. PayloadOf(s, n) \in [1..n -> Byte]
    <2>1. ASSUME NEW i \in 1..n
          PROVE  (IF HeaderSize + i <= Len(s) THEN s[HeaderSize + i] ELSE Magic0)
                   \in Byte
      <3>1. HeaderSize + i <= Len(s) => HeaderSize + i \in 1..Len(s)
        BY <1>1, WireAssumption
      <3> QED
        BY <1>1, <3>1, ElementOfSeq
    <2> QED
      BY <2>1 DEF PayloadOf
  <1>4. FieldsOf(s) \in Seq(Byte) /\ Len(FieldsOf(s)) = HeaderSize - 5
    BY <1>1, <1>2, FunctionIsSeq
  <1>5. PayloadOf(s, n) \in Seq(Byte) /\ Len(PayloadOf(s, n)) = n
    BY <1>3, FunctionIsSeq
  <1> QED
    BY <1>1, <1>4, <1>5

\* Where the bytes of such a frame come from.
LEMMA FrameMeantLayout ==
  ASSUME NEW s \in Seq(Byte), NEW n \in Nat
  PROVE  LET f == FrameMeant(s, n)
         IN  /\ \E T : f \in Seq(T)
             /\ Len(f) = HeaderSize + n + CrcSize
             /\ f[1] = Magic0 /\ f[2] = Magic1 /\ f[3] = ProtocolVersion
             /\ f[HeaderSize - 1] = n % ByteBase
             /\ f[HeaderSize] = (n \div ByteBase) % ByteBase
  <1> DEFINE fields == FieldsOf(s)
             payload == PayloadOf(s, n)
             h == HeaderSize - 5
  <1>1. /\ fields \in Seq(Byte) /\ payload \in Seq(Byte)
        /\ Len(fields) = h /\ Len(payload) = n /\ h \in Nat
    BY PartsTyped
  <1>2. FrameMeant(s, n) = EncodeFrame(fields, payload)
    BY DEF FrameMeant
  <1>3. 5 + h = HeaderSize /\ 4 + h = HeaderSize - 1 /\ CrcSize \in Nat
    BY WireAssumption
  <1> HIDE DEF fields, payload, h
  <1> DEFINE body == BodyOf(fields, payload)
             f == EncodeFrame(fields, payload)
  <1>4. /\ Len(body) = 5 + h + n
        /\ body[1] = Magic0 /\ body[2] = Magic1 /\ body[3] = ProtocolVersion
        /\ body[4 + h] = n % ByteBase
        /\ body[5 + h] = (n \div ByteBase) % ByteBase
    <2>1. fields \in Seq(Byte) /\ payload \in Seq(Byte)
      BY <1>1
    <2>2. /\ Len(body) = 5 + Len(fields) + Len(payload)
          /\ body[1] = Magic0 /\ body[2] = Magic1 /\ body[3] = ProtocolVersion
          /\ body[4 + Len(fields)] = Len(payload) % ByteBase
          /\ body[5 + Len(fields)] = (Len(payload) \div ByteBase) % ByteBase
      BY <2>1, BodyHeader
    <2> HIDE DEF body
    <2> QED
      BY <1>1, <2>2
  <1>5. /\ \E T : f \in Seq(T)
        /\ Len(f) = Len(body) + CrcSize
        /\ \A i \in 1..Len(body) : f[i] = body[i]
    <2>1. Framed(f, body)
      BY <1>1, FrameLayout
    <2> HIDE DEF f, body
    <2> QED
      BY <2>1 DEF Framed
  <1> HIDE DEF body, f
  <1>6. /\ 1 \in 1..Len(body) /\ 2 \in 1..Len(body) /\ 3 \in 1..Len(body)
        /\ 4 + h \in 1..Len(body) /\ 5 + h \in 1..Len(body)
    BY <1>1, <1>4
  <1>7. /\ f[1] = Magic0 /\ f[2] = Magic1 /\ f[3] = ProtocolVersion
        /\ f[4 + h] = n % ByteBase
        /\ f[5 + h] = (n \div ByteBase) % ByteBase
    BY <1>4, <1>5, <1>6
  <1>8. Len(f) = HeaderSize + n + CrcSize
    BY <1>1, <1>3, <1>4, <1>5
  <1>9. f[HeaderSize - 1] = f[4 + h] /\ f[HeaderSize] = f[5 + h]
    BY <1>3
  <1> QED
    BY <1>2, <1>5, <1>7, <1>8, <1>9 DEF f

------------------------------------------------------------------------------
(***************************************************************************)
(* Prefixes.                                                               *)
(***************************************************************************)
LEMMA PrefixAgrees ==
  ASSUME NEW S, NEW s \in Seq(S), NEW f \in Seq(S), Abs!IsPrefix(f, s)
  PROVE  /\ Len(f) <= Len(s) /\ Len(f) \in Nat /\ Len(s) \in Nat
         /\ \A i \in 1..Len(f) : f[i] = s[i]
  <1>1. /\ Len(f) \in Nat /\ Len(s) \in Nat
        /\ Len(f) <= Len(s) /\ SubSeq(f, 1, Len(f)) = SubSeq(s, 1, Len(f))
    BY LenProperties DEF Abs!IsPrefix
  <1>2. SubSeq(f, 1, Len(f)) = f
    BY SubSeqFull
  <1>3. ASSUME NEW i \in 1..Len(f)
        PROVE  SubSeq(s, 1, Len(f))[i] = s[i]
    <2>1. \A j \in 1..Len(f) : s[j] \in S
      BY <1>1, ElementOfSeq
    <2>2. \A j \in 1..(Len(f) - 1 + 1) : SubSeq(s, 1, Len(f))[j] = s[1 + j - 1]
      BY <1>1, <2>1, SubSeqProperties
    <2>3. 1 + i - 1 = i /\ i \in 1..(Len(f) - 1 + 1)
      BY <1>1
    <2> QED
      BY <2>2, <2>3
  <1> QED
    BY <1>1, <1>2, <1>3

\* Whichever is the prefix of the other, they agree as far as both reach.
LEMMA PrefixesAgree ==
  ASSUME NEW s \in Seq(Byte), NEW f, NEW T, f \in Seq(T),
         Abs!IsPrefix(f, s) \/ Abs!IsPrefix(s, f),
         NEW i \in Nat \ {0}, i <= Len(s), i <= Len(f)
  PROVE  f[i] = s[i]
  <1> DEFINE S == Byte \cup T
  <1>1. s \in Seq(S) /\ f \in Seq(S)
    <2>1. Byte \subseteq S /\ T \subseteq S
      OBVIOUS
    <2> HIDE DEF S
    <2> QED
      BY <2>1, SeqMonotonic
  <1> HIDE DEF S
  <1>2. Len(s) \in Nat /\ Len(f) \in Nat
    BY <1>1, LenProperties
  <1>3. i \in 1..Len(s) /\ i \in 1..Len(f)
    BY <1>2
  <1>4. CASE Abs!IsPrefix(f, s)
    BY <1>1, <1>3, <1>4, PrefixAgrees
  <1>5. CASE Abs!IsPrefix(s, f)
    BY <1>1, <1>3, <1>5, PrefixAgrees
  <1> QED
    BY <1>4, <1>5

------------------------------------------------------------------------------
(***************************************************************************)
(* What the head of the buffer says about the frame.                       *)
(***************************************************************************)
LEMMA HeadDecides ==
  ASSUME NEW s \in Seq(Byte), NEW n \in 0..MaxPayload,
         \/ Abs!IsPrefix(FrameMeant(s, n), s)
         \/ Abs!IsPrefix(s, FrameMeant(s, n))
  PROVE  /\ Len(s) >= 1 => s[1] = Magic0
         /\ Len(s) >= 2 => s[2] = Magic1
         /\ Len(s) >= HeaderSize => /\ s[3] = ProtocolVersion
                                    /\ PayloadLength(s) = n
  <1> DEFINE f == FrameMeant(s, n)
  <1>1. /\ n \in Nat /\ MaxPayload \in Nat /\ n <= MaxPayload
        /\ HeaderSize \in Nat /\ HeaderSize >= 5 /\ CrcSize \in Nat
        /\ ByteBase \in Nat \ {0} /\ MaxPayload < ByteBase * ByteBase
    BY WireAssumption
  <1>2. Len(s) \in Nat
    BY LenProperties
  <1>3. PICK T : f \in Seq(T)
    BY <1>1, FrameMeantLayout
  <1>4. /\ Len(f) = HeaderSize + n + CrcSize
        /\ f[1] = Magic0 /\ f[2] = Magic1 /\ f[3] = ProtocolVersion
        /\ f[HeaderSize - 1] = n % ByteBase
        /\ f[HeaderSize] = (n \div ByteBase) % ByteBase
    BY <1>1, FrameMeantLayout
  <1>5. Abs!IsPrefix(f, s) \/ Abs!IsPrefix(s, f)
    OBVIOUS
  <1> HIDE DEF f
  <1>6. ASSUME NEW i \in 1..HeaderSize, i <= Len(s)
        PROVE  f[i] = s[i]
    <2>1. i \in Nat \ {0} /\ i <= Len(f)
      BY <1>1, <1>4
    <2> QED
      BY <1>3, <1>5, <1>6, <2>1, PrefixesAgree
  <1>7. Len(s) >= 1 => s[1] = Magic0
    BY <1>1, <1>2, <1>4, <1>6
  <1>8. Len(s) >= 2 => s[2] = Magic1
    BY <1>1, <1>2, <1>4, <1>6
  <1>9. ASSUME Len(s) >= HeaderSize
        PROVE  s[3] = ProtocolVersion /\ PayloadLength(s) = n
    <2>1. s[3] = ProtocolVersion
      BY <1>1, <1>2, <1>4, <1>6, <1>9
    <2>2. /\ s[HeaderSize - 1] = n % ByteBase
          /\ s[HeaderSize] = (n \div ByteBase) % ByteBase
      <3>1. HeaderSize - 1 \in 1..HeaderSize /\ HeaderSize \in 1..HeaderSize
        BY <1>1
      <3> QED
        BY <1>1, <1>2, <1>4, <1>6, <1>9, <3>1
    <2>3. PayloadLength(s)
            = (n % ByteBase) + ByteBase * ((n \div ByteBase) % ByteBase)
      <3>1. HeaderSize - 1 + 1 = HeaderSize
        BY <1>1
      <3> QED
        BY <2>2, <3>1 DEF PayloadLength, ReadU16
    <2>4. n < ByteBase * ByteBase
      <3>1. ByteBase * ByteBase \in Nat
        BY <1>1, ProductNat
      <3> QED
        BY <1>1, <3>1
    <2>5. (n % ByteBase) + ByteBase * ((n \div ByteBase) % ByteBase) = n
      BY <1>1, <2>4, BytesOfLength
    <2> QED
      BY <2>1, <2>3, <2>5
  <1> QED
    BY <1>7, <1>8, <1>9

\* A header the decoder has accepted, with all the bytes it claims.
Complete(s) ==
  /\ Len(s) >= HeaderSize /\ HasMagic(s) /\ s[3] = ProtocolVersion
  /\ PayloadLength(s) <= MaxPayload
  /\ Len(s) >= FrameLength(s)

\* The encoder gives the received header and payload back, byte for byte.
LEMMA BodyReencoded ==
  ASSUME NEW s \in Seq(Byte), Complete(s)
  PROVE  LET n == PayloadLength(s)
         IN  BodyOf(FieldsOf(s), PayloadOf(s, n)) = SubSeq(s, 1, HeaderSize + n)
  <1> DEFINE n == PayloadLength(s)
             fields == FieldsOf(s)
             payload == PayloadOf(s, n)
             body == BodyOf(fields, payload)
             head == SubSeq(s, 1, HeaderSize + n)
             h == HeaderSize - 5
  <1>1. /\ HeaderSize \in Nat /\ HeaderSize >= 5 /\ CrcSize \in Nat
        /\ ByteBase \in Nat \ {0} /\ Len(s) \in Nat
    BY WireAssumption, LenProperties
  <1>2. n \in Nat /\ HeaderSize + n <= Len(s)
    <2>1. Len(s) >= HeaderSize /\ Len(s) >= HeaderSize + PayloadLength(s) + CrcSize
      BY DEF Complete, FrameLength
    <2>2. PayloadLength(s) \in Nat
      BY <2>1, FrameLengthBounds
    <2> HIDE DEF n
    <2> QED
      BY <1>1, <2>1, <2>2 DEF n
  <1>3. /\ s[1] = Magic0 /\ s[2] = Magic1 /\ s[3] = ProtocolVersion
    BY DEF Complete, HasMagic
  <1>4. /\ s[HeaderSize - 1] = n % ByteBase
        /\ s[HeaderSize] = (n \div ByteBase) % ByteBase
    <2> DEFINE lo == s[HeaderSize - 1]
               hi == s[HeaderSize]
    <2>1. HeaderSize - 1 \in 1..Len(s) /\ HeaderSize \in 1..Len(s)
      BY <1>1, <1>2
    <2>2. lo \in Byte /\ hi \in Byte
      BY <2>1, ElementOfSeq
    <2>3. lo \in 0..(ByteBase - 1) /\ hi \in 0..(ByteBase - 1)
      BY <2>2, WireAssumption
    <2>4. n = lo + ByteBase * hi
      <3>1. HeaderSize - 1 + 1 = HeaderSize
        BY <1>1
      <3> QED
        BY <3>1 DEF PayloadLength, ReadU16
    <2> HIDE DEF lo, hi, n
    <2>5. n % ByteBase = lo /\ (n \div ByteBase) % ByteBase = hi
      BY <1>1, <2>3, <2>4, LengthOfBytes
    <2> QED
      BY <2>5 DEF lo, hi
  <1>5. ASSUME NEW i \in 1..h
        PROVE  fields[i] = s[3 + i]
    <2>1. i + 3 <= Len(s) /\ i + 3 = 3 + i
      BY <1>1, <1>2
    <2> QED
      BY <2>1 DEF FieldsOf
  <1>6. ASSUME NEW i \in 1..n
        PROVE  payload[i] = s[HeaderSize + i]
    <2>1. HeaderSize + i <= Len(s)
      BY <1>1, <1>2
    <2> QED
      BY <2>1 DEF PayloadOf
  <1>7. /\ fields \in Seq(Byte) /\ payload \in Seq(Byte)
        /\ Len(fields) = h /\ Len(payload) = n /\ h \in Nat
    BY <1>2, PartsTyped
  <1> HIDE DEF n, fields, payload, h
  <1>8. /\ body \in Seq(Byte \cup Int)
        /\ Len(body) = 5 + h + n
        /\ body[1] = Magic0 /\ body[2] = Magic1 /\ body[3] = ProtocolVersion
        /\ body[4 + h] = n % ByteBase
        /\ body[5 + h] = (n \div ByteBase) % ByteBase
    <2>1. fields \in Seq(Byte) /\ payload \in Seq(Byte)
      BY <1>7
    <2>2. /\ body \in Seq(Byte \cup Int)
          /\ Len(body) = 5 + Len(fields) + Len(payload)
          /\ body[1] = Magic0 /\ body[2] = Magic1 /\ body[3] = ProtocolVersion
          /\ body[4 + Len(fields)] = Len(payload) % ByteBase
          /\ body[5 + Len(fields)] = (Len(payload) \div ByteBase) % ByteBase
      BY <2>1, BodyHeader
    <2> QED
      BY <1>7, <2>2
  <1>at. /\ \A i \in 1..h : \A j \in Nat : j = 3 + i => body[j] = fields[i]
         /\ \A i \in 1..n : \A j \in Nat : j = 5 + h + i => body[j] = payload[i]
    <2>1. ASSUME NEW i \in 1..h, NEW j \in Nat, j = 3 + i
          PROVE  body[j] = fields[i]
      <3>1. /\ fields \in Seq(Byte) /\ payload \in Seq(Byte)
            /\ i \in 1..Len(fields) /\ j = 3 + i
        BY <1>7, <2>1
      <3> QED
        BY <3>1, FieldAt
    <2>2. ASSUME NEW i \in 1..n, NEW j \in Nat, j = 5 + h + i
          PROVE  body[j] = payload[i]
      <3>1. /\ fields \in Seq(Byte) /\ payload \in Seq(Byte)
            /\ i \in 1..Len(payload) /\ j = 5 + Len(fields) + i
        BY <1>7, <2>2
      <3> QED
        BY <3>1, PayloadAt
    <2> QED
      BY <2>1, <2>2
  <1> HIDE DEF body, h
  <1>9. 5 + h = HeaderSize
    BY <1>1 DEF h
  <1>10. /\ head \in Seq(Byte) /\ Len(head) = HeaderSize + n
         /\ \A i \in 1..(HeaderSize + n) : head[i] = s[i]
    <2>1. \A i \in 1..(HeaderSize + n) : s[i] \in Byte
      BY <1>1, <1>2, ElementOfSeq
    <2>2. 1 \in Int /\ HeaderSize + n \in Int /\ 1 <= HeaderSize + n
      BY <1>1, <1>2
    <2> DEFINE e == HeaderSize + n
    <2>3. e \in Int /\ 1 <= e /\ \A i \in 1..e : s[i] \in Byte
      BY <2>1, <2>2
    <2> HIDE DEF e
    <2>4. /\ SubSeq(s, 1, e) \in Seq(Byte)
          /\ Len(SubSeq(s, 1, e)) = e - 1 + 1
          /\ \A i \in 1..(e - 1 + 1) : SubSeq(s, 1, e)[i] = s[1 + i - 1]
      BY <2>3, SubSeqProperties
    <2>5. e - 1 + 1 = e /\ \A i \in 1..e : 1 + i - 1 = i
      BY <2>3
    <2>6. /\ SubSeq(s, 1, e) \in Seq(Byte) /\ Len(SubSeq(s, 1, e)) = e
          /\ \A i \in 1..e : SubSeq(s, 1, e)[i] = s[i]
      BY <2>4, <2>5
    <2> QED
      BY <2>6 DEF e
  <1> HIDE DEF head
  <1>11. ASSUME NEW i \in 1..(HeaderSize + n)
         PROVE  body[i] = s[i]
    <2>1. CASE i \in 1..3
      BY <1>3, <1>8, <2>1
    <2>2. CASE i \in 4..(3 + h)
      <3> DEFINE j == i - 3
      <3>1. j \in 1..h /\ 3 + j = i /\ i \in Nat
        BY <1>7, <2>2 DEF h
      <3> HIDE DEF j
      <3>2. body[i] = fields[j] /\ fields[j] = s[3 + j]
        BY <1>5, <1>at, <3>1
      <3> QED
        BY <3>1, <3>2
    <2>3. CASE i = 4 + h
      <3>1. i = HeaderSize - 1
        BY <1>1, <1>9, <2>3, <1>7
      <3> QED
        BY <1>4, <1>8, <2>3, <3>1
    <2>4. CASE i = 5 + h
      BY <1>4, <1>8, <1>9, <2>4
    <2>5. CASE i \in (HeaderSize + 1)..(HeaderSize + n)
      <3> DEFINE j == i - HeaderSize
      <3>1. j \in 1..n /\ HeaderSize + j = i /\ 5 + h + j = i /\ i \in Nat
        BY <1>1, <1>2, <1>7, <1>9, <2>5
      <3> HIDE DEF j
      <3>2. body[i] = payload[j] /\ payload[j] = s[HeaderSize + j]
        BY <1>6, <1>at, <3>1
      <3> QED
        BY <3>1, <3>2
    <2> QED
      BY <1>1, <1>2, <1>7, <1>9, <2>1, <2>2, <2>3, <2>4, <2>5
  <1>12. body = head
    <2> DEFINE S == Byte \cup Int
    <2>1. body \in Seq(S) /\ head \in Seq(S)
      <3>1. Byte \subseteq S
        OBVIOUS
      <3> QED
        BY <1>8, <1>10, <3>1, SeqMonotonic
    <2>2. Len(body) = Len(head) /\ \A i \in 1..Len(body) : body[i] = head[i]
      BY <1>1, <1>2, <1>7, <1>8, <1>9, <1>10, <1>11
    <2> HIDE DEF S
    <2> QED
      BY <2>1, <2>2, SeqEqual
  <1> QED
    BY <1>12 DEF n, fields, payload, body, head

------------------------------------------------------------------------------
(***************************************************************************)
(* Accepting a candidate is the same as finding the frame meant.           *)
(***************************************************************************)
LEMMA SamePrefix ==
  ASSUME NEW S, NEW b \in Seq(S), NEW t \in Seq(S), NEW u \in Seq(S),
         Len(t) = Len(u), b \o t = b \o u
  PROVE  t = u
  <1>1. ASSUME NEW i \in 1..Len(t)
        PROVE  t[i] = u[i]
    <2> DEFINE j == Len(b) + i
    <2>1. i \in 1..Len(u)
      OBVIOUS
    <2>2. (b \o t)[j] = t[i] /\ (b \o u)[j] = u[i]
      BY <2>1, RightPart
    <2> QED
      BY <2>2
  <1> QED
    BY <1>1, SeqEqual

\* The candidate at the head of s.
HeadOf(s) == SubSeq(s, 1, FrameLength(s))

LEMMA CandidateTyped ==
  ASSUME NEW s \in Seq(Byte), Complete(s)
  PROVE  /\ PayloadLength(s) \in 0..MaxPayload
         /\ FrameLength(s) = HeaderSize + PayloadLength(s) + CrcSize
         /\ FrameLength(s) \in 1..Len(s)
         /\ HeadOf(s) \in Seq(Byte) /\ Len(HeadOf(s)) = FrameLength(s)
         /\ \A i \in 1..FrameLength(s) : HeadOf(s)[i] = s[i]
  <1> DEFINE e == FrameLength(s)
             n == PayloadLength(s)
  <1>1. /\ HeaderSize \in Nat /\ HeaderSize >= 5 /\ CrcSize \in Nat
        /\ MaxPayload \in Nat /\ Len(s) \in Nat
    BY WireAssumption, LenProperties
  <1>2. Len(s) >= HeaderSize /\ n <= MaxPayload /\ Len(s) >= e
    BY DEF Complete
  <1>3. n \in Nat /\ e = HeaderSize + n + CrcSize
    BY <1>2, FrameLengthBounds DEF FrameLength
  <1> HIDE DEF e, n
  <1>4. n \in 0..MaxPayload /\ e \in 1..Len(s)
    BY <1>1, <1>2, <1>3
  <1>5. \A i \in 1..e : s[i] \in Byte
    BY <1>1, <1>4, ElementOfSeq
  <1>6. /\ SubSeq(s, 1, e) \in Seq(Byte)
        /\ Len(SubSeq(s, 1, e)) = e
        /\ \A i \in 1..e : SubSeq(s, 1, e)[i] = s[i]
    <2>1. /\ SubSeq(s, 1, e) \in Seq(Byte)
          /\ Len(SubSeq(s, 1, e)) = e - 1 + 1
          /\ \A i \in 1..(e - 1 + 1) : SubSeq(s, 1, e)[i] = s[1 + i - 1]
      BY <1>4, <1>5, SubSeqProperties
    <2>2. e - 1 + 1 = e /\ \A i \in 1..e : 1 + i - 1 = i
      BY <1>1, <1>4
    <2> QED
      BY <2>1, <2>2
  <1> QED
    BY <1>3, <1>4, <1>6 DEF e, n, HeadOf

LEMMA AcceptedIsMeant ==
  ASSUME NEW s \in Seq(Byte), Complete(s)
  PROVE  DecodeResult(HeadOf(s)) = "OK"
           <=> HeadOf(s) = FrameMeant(s, PayloadLength(s))
  <1> DEFINE n == PayloadLength(s)
             L == FrameLength(s)
             cand == HeadOf(s)
             e == HeaderSize + n
             body == SubSeq(s, 1, e)
             tail == SubSeq(cand, L - CrcSize + 1, L)
  <1>1. /\ HeaderSize \in Nat /\ HeaderSize >= 5 /\ CrcSize \in Nat \ {0}
        /\ Len(s) \in Nat
    BY WireAssumption, LenProperties
  <1>2. /\ n \in 0..MaxPayload /\ n \in Nat
        /\ L = e + CrcSize /\ L \in 1..Len(s)
        /\ cand \in Seq(Byte) /\ Len(cand) = L
        /\ \A i \in 1..L : cand[i] = s[i]
    BY <1>1, CandidateTyped, WireAssumption
  <1>3. FrameMeant(s, n) = body \o FrameCrc(body)
    <2>1. BodyOf(FieldsOf(s), PayloadOf(s, n)) = body
      BY BodyReencoded
    <2>2. FrameMeant(s, n)
            = BodyOf(FieldsOf(s), PayloadOf(s, n))
                \o FrameCrc(BodyOf(FieldsOf(s), PayloadOf(s, n)))
      BY DEF FrameMeant, EncodeFrame, BodyOf
    <2> HIDE DEF body
    <2> QED
      BY <2>1, <2>2
  <1>4. /\ HasMagic(cand) /\ cand[3] = ProtocolVersion
        /\ PayloadLength(cand) = n /\ n <= MaxPayload /\ FrameLength(cand) = L
    <2> HIDE DEF cand, n
    <2>1. /\ 1 \in 1..L /\ 2 \in 1..L /\ 3 \in 1..L
          /\ HeaderSize - 1 \in 1..L /\ HeaderSize \in 1..L
      BY <1>1, <1>2
    <2>2. /\ cand[1] = s[1] /\ cand[2] = s[2] /\ cand[3] = s[3]
          /\ cand[HeaderSize - 1] = s[HeaderSize - 1]
          /\ cand[HeaderSize] = s[HeaderSize]
      BY <1>2, <2>1
    <2>3. HeaderSize - 1 + 1 = HeaderSize
      BY <1>1
    <2>4. PayloadLength(cand) = PayloadLength(s)
      BY <2>2, <2>3 DEF PayloadLength, ReadU16
    <2>5. FrameLength(cand) = FrameLength(s)
      BY <2>4 DEF FrameLength
    <2> QED
      BY <2>2, <2>4, <2>5 DEF Complete, HasMagic, n
  <1>5. L - CrcSize = e /\ e \in 1..L /\ L >= HeaderSize + CrcSize
    BY <1>1, <1>2
  <1>6. SubSeq(cand, 1, e) = body
    <2>1. L \in 1..Len(s) /\ e \in 1..L
      BY <1>2, <1>5
    <2> HIDE DEF e, L
    <2>2. SubSeq(SubSeq(s, 1, L), 1, e) = SubSeq(s, 1, e)
      BY <2>1, PrefixOfPrefix
    <2> QED
      BY <2>2 DEF L, HeadOf
  <1>7. DecodeResult(cand) = "OK" <=> tail = FrameCrc(body)
    <2>1. SubSeq(cand, 1, Len(cand) - CrcSize) = body
      BY <1>2, <1>5, <1>6
    <2>2. SubSeq(cand, Len(cand) - CrcSize + 1, Len(cand)) = tail
      BY <1>2
    <2>3. ~(Len(cand) < HeaderSize + CrcSize) /\ Len(cand) = FrameLength(cand)
          /\ ~(PayloadLength(cand) > MaxPayload)
      <3>1. /\ Len(cand) = L /\ FrameLength(cand) = L /\ PayloadLength(cand) = n
            /\ n \in Nat /\ n <= MaxPayload /\ L >= HeaderSize + CrcSize
        BY <1>2, <1>4, <1>5
      <3>2. /\ L \in Nat /\ HeaderSize + CrcSize \in Nat /\ MaxPayload \in Nat
        BY <1>1, <1>2, WireAssumption
      <3> HIDE DEF cand, L, n
      <3> QED
        BY <3>1, <3>2
    <2> HIDE DEF cand, body, tail
    <2> QED
      BY <1>4, <2>1, <2>2, <2>3 DEF DecodeResult
  <1>8. cand = body \o tail
    <2>1. /\ 1 \in 1..(Len(cand) + 1) /\ e \in (1 - 1)..Len(cand)
          /\ L \in e..Len(cand)
      BY <1>1, <1>2, <1>5
    <2> HIDE DEF cand, e, L
    <2>2. SubSeq(cand, 1, e) \o SubSeq(cand, e + 1, L) = SubSeq(cand, 1, L)
      BY <1>2, <2>1, ConcatAdjacentSubSeq
    <2>3. SubSeq(cand, 1, L) = cand
      BY <1>2, SubSeqFull
    <2> QED
      BY <1>5, <1>6, <2>2, <2>3
  <1>9. ASSUME body \o tail = body \o FrameCrc(body)
        PROVE  tail = FrameCrc(body)
    <2>1. PICK C : FrameCrc(body) \in Seq(C) /\ Len(FrameCrc(body)) = CrcSize
      BY CrcTyped
    <2>2. tail \in Seq(Byte) /\ Len(tail) = CrcSize
      <3>1. \A i \in (L - CrcSize + 1)..L : cand[i] \in Byte
        <4>1. L \in Nat /\ CrcSize \in Nat /\ L - CrcSize \in Nat
          BY <1>1, <1>2, <1>5
        <4>2. cand \in Seq(Byte) /\ Len(cand) = L
          BY <1>2
        <4> HIDE DEF cand, L
        <4>3. \A i \in (L - CrcSize + 1)..L : i \in 1..L
          BY <4>1
        <4>4. \A i \in 1..L : cand[i] \in Byte
          BY <4>2, ElementOfSeq
        <4> QED
          BY <4>3, <4>4
      <3>2. /\ L - CrcSize + 1 \in Int /\ L \in Int /\ L - CrcSize + 1 <= L
            /\ L - (L - CrcSize + 1) + 1 = CrcSize
        <4>1. L \in Nat /\ CrcSize \in Nat \ {0}
          BY <1>1, <1>2
        <4> HIDE DEF L
        <4> QED
          BY <4>1
      <3> DEFINE a == L - CrcSize + 1
      <3> HIDE DEF cand, L, a
      <3>3. /\ a \in Int /\ L \in Int /\ a <= L /\ L - a + 1 = CrcSize
            /\ \A i \in a..L : cand[i] \in Byte
        BY <3>1, <3>2 DEF a
      <3>4. SubSeq(cand, a, L) \in Seq(Byte) /\ Len(SubSeq(cand, a, L)) = CrcSize
        BY <3>3, SubSeqProperties
      <3> QED
        BY <3>4 DEF a
    <2>3. body \in Seq(Byte)
      <3>1. \A i \in 1..e : s[i] \in Byte
        BY <1>1, <1>2, <1>5, ElementOfSeq
      <3>2. e \in Int /\ 1 \in Int
        BY <1>1, <1>2
      <3> HIDE DEF e
      <3>3. SubSeq(s, 1, e) \in Seq(Byte)
        BY <3>1, <3>2, SubSeqProperties
      <3> QED
        BY <3>3
    <2> HIDE DEF body, tail
    <2> DEFINE S == Byte \cup C
    <2>4. body \in Seq(S) /\ tail \in Seq(S) /\ FrameCrc(body) \in Seq(S)
      <3>1. Byte \subseteq S /\ C \subseteq S
        OBVIOUS
      <3> HIDE DEF S
      <3> QED
        BY <2>1, <2>2, <2>3, <3>1, SeqMonotonic
    <2> HIDE DEF S
    <2> QED
      BY <1>9, <2>1, <2>2, <2>4, SamePrefix
  <1> HIDE DEF n, L, cand, e, body, tail
  <1>10. DecodeResult(cand) = "OK" <=> cand = FrameMeant(s, n)
    BY <1>3, <1>7, <1>8, <1>9
  <1> QED
    BY <1>10 DEF cand, n

LEMMA MeantPrefix ==
  ASSUME NEW s \in Seq(Byte), Complete(s)
  PROVE  LET f == FrameMeant(s, PayloadLength(s))
         IN  /\ Abs!IsPrefix(f, s) <=> HeadOf(s) = f
             /\ Abs!IsPrefix(s, f) => HeadOf(s) = f
             /\ Len(f) = FrameLength(s)
  <1> DEFINE n == PayloadLength(s)
             f == FrameMeant(s, n)
             L == FrameLength(s)
  <1>1. /\ n \in Nat /\ L = HeaderSize + n + CrcSize
        /\ L \in 1..Len(s) /\ Len(s) \in Nat
    <2>1. n \in 0..MaxPayload /\ MaxPayload \in Nat
      BY CandidateTyped, WireAssumption
    <2> HIDE DEF n, L
    <2>2. n \in Nat
      BY <2>1
    <2> QED
      BY <2>2, CandidateTyped, LenProperties DEF n, L
  <1>2. PICK T : f \in Seq(T)
    BY <1>1, FrameMeantLayout
  <1>3. Len(f) = L
    BY <1>1, FrameMeantLayout
  <1> HIDE DEF n, f, L
  <1>4. SubSeq(f, 1, Len(f)) = f
    BY <1>2, SubSeqFull
  <1>5. Abs!IsPrefix(f, s) <=> SubSeq(s, 1, L) = f
    BY <1>1, <1>3, <1>4 DEF Abs!IsPrefix
  <1>6. ASSUME Abs!IsPrefix(s, f)
        PROVE  SubSeq(s, 1, L) = f
    <2>1. Len(s) <= Len(f) /\ SubSeq(s, 1, Len(s)) = SubSeq(f, 1, Len(s))
      BY <1>6 DEF Abs!IsPrefix
    <2>2. Len(s) = L
      BY <1>1, <1>3, <2>1
    <2> QED
      BY <1>3, <1>4, <2>1, <2>2
  <1> QED
    BY <1>3, <1>5, <1>6 DEF n, f, L, HeadOf

\* A stream some frame is meant by passes every test of the parse loop.
LEMMA ViableHead ==
  ASSUME NEW s \in Seq(Byte), Abs!Viable(s)
  PROVE  /\ Len(s) >= 1 => s[1] = Magic0
         /\ Len(s) >= 2 => HasMagic(s)
         /\ Len(s) >= HeaderSize => /\ s[3] = ProtocolVersion
                                    /\ PayloadLength(s) <= MaxPayload
         /\ Complete(s) => DecodeResult(HeadOf(s)) = "OK"
  <1>1. PICK n \in 0..MaxPayload : \/ Abs!IsPrefix(FrameMeant(s, n), s)
                                   \/ Abs!IsPrefix(s, FrameMeant(s, n))
    BY DEF Abs!Viable, Reencoded, FrameMeant
  <1>2. /\ Len(s) >= 1 => s[1] = Magic0
        /\ Len(s) >= 2 => s[2] = Magic1
        /\ Len(s) >= HeaderSize => s[3] = ProtocolVersion /\ PayloadLength(s) = n
    BY <1>1, HeadDecides
  <1>3. n <= MaxPayload /\ Len(s) \in Nat /\ HeaderSize \in Nat
    BY WireAssumption, LenProperties
  <1>4. ASSUME Complete(s)
        PROVE  DecodeResult(HeadOf(s)) = "OK"
    <2>1. PayloadLength(s) = n
      BY <1>2, <1>4 DEF Complete
    <2>2. HeadOf(s) = FrameMeant(s, PayloadLength(s))
      BY <1>1, <1>4, <2>1, MeantPrefix
    <2> QED
      BY <1>4, <2>2, AcceptedIsMeant
  <1> QED
    BY <1>2, <1>3, <1>4 DEF HasMagic

\* Only a complete candidate can have a frame at its head.
LEMMA FrameIsComplete ==
  ASSUME NEW s \in Seq(Byte), NEW f \in Reencoded(s), Abs!IsPrefix(f, s)
  PROVE  Complete(s)
  <1>1. PICK n \in 0..MaxPayload : f = FrameMeant(s, n)
    BY DEF Reencoded, FrameMeant
  <1>2. /\ n \in Nat /\ n <= MaxPayload /\ Len(s) \in Nat
        /\ HeaderSize \in Nat /\ HeaderSize >= 5 /\ CrcSize \in Nat
    BY WireAssumption, LenProperties
  <1>3. Len(f) = HeaderSize + n + CrcSize
    BY <1>1, <1>2, FrameMeantLayout
  <1>4. Len(f) <= Len(s)
    BY DEF Abs!IsPrefix
  <1>5. Len(s) >= HeaderSize /\ Len(s) >= 2 /\ Len(s) >= 1
    BY <1>2, <1>3, <1>4
  <1>6. /\ s[1] = Magic0 /\ s[2] = Magic1 /\ s[3] = ProtocolVersion
        /\ PayloadLength(s) = n
    BY <1>1, <1>5, HeadDecides
  <1> QED
    BY <1>2, <1>3, <1>4, <1>5, <1>6 DEF Complete, HasMagic, FrameLength

------------------------------------------------------------------------------
(***************************************************************************)
(* The steps.                                                              *)
(***************************************************************************)

\* A resynchronisation skips only positions where no frame can begin.
LEMMA SkippedNotViable ==
  ASSUME NEW b \in Seq(Byte), NEW k \in 0..Len(b), ResyncPoint(b, k),
         NEW i \in 1..(k - 1)
  PROVE  ~Abs!Viable(Abs!After(b, i))
  <1> DEFINE t == SubSeq(b, i + 1, Len(b))
  <1>1. Len(b) \in Nat /\ i \in Nat /\ i < Len(b) /\ i >= 1 /\ k \in Nat /\ i < k
    BY LenProperties
  <1>2. t \in Seq(Byte) /\ Len(t) = Len(b) - i
    BY <1>1, DropPrefix
  <1>3. \A j \in 1..(Len(b) - i) : t[j] = b[i + j]
    <2>1. \A j \in (i + 1)..Len(b) : b[j] \in Byte
      BY <1>1, ElementOfSeq
    <2>2. \A j \in 1..(Len(b) - (i + 1) + 1) : t[j] = b[(i + 1) + j - 1]
      BY <1>1, <2>1, SubSeqProperties
    <2>3. /\ Len(b) - (i + 1) + 1 = Len(b) - i
          /\ \A j \in 1..(Len(b) - i) : (i + 1) + j - 1 = i + j
      BY <1>1
    <2> QED
      BY <2>2, <2>3
  <1> HIDE DEF t
  <1>4. CASE i + 1 <= Len(b) - 1
    <2>1. i + 1 \notin MagicPositions(b)
      <3>1. CASE \A p \in MagicPositions(b) : k < p
        <4>1. ~(k < i + 1)
          BY <1>1
        <4> QED
          BY <3>1, <4>1
      <3>2. CASE MagicPositions(b) = {}
        BY <3>2
      <3> QED
        BY <3>1, <3>2 DEF ResyncPoint
    <2>2. b[i + 1] # Magic0 \/ b[i + 2] # Magic1
      <3>1. i + 1 \in 2..(Len(b) - 1) /\ (i + 1) + 1 = i + 2
        BY <1>1, <1>4
      <3> QED
        BY <2>1, <3>1 DEF MagicPositions
    <2>3. t[1] = b[i + 1] /\ t[2] = b[i + 2] /\ Len(t) >= 2
      BY <1>1, <1>2, <1>3, <1>4
    <2>4. ~HasMagic(t)
      BY <2>2, <2>3 DEF HasMagic
    <2> QED
      BY <1>2, <2>3, <2>4, ViableHead DEF Abs!After, t
  <1>5. CASE i + 1 = Len(b)
    <2>1. k = Len(b) /\ MagicPositions(b) = {}
      BY <1>1, <1>5 DEF ResyncPoint, MagicPositions
    <2>2. b[Len(b)] # Magic0
      BY <1>1, <2>1 DEF ResyncPoint
    <2>3. t[1] = b[i + 1] /\ Len(t) >= 1
      <3>1. 1 \in 1..(Len(b) - i) /\ Len(b) - i >= 1
        BY <1>1, <1>5
      <3> QED
        BY <1>2, <1>3, <3>1
    <2>4. t[1] # Magic0
      BY <1>5, <2>2, <2>3
    <2> QED
      BY <1>2, <2>3, <2>4, ViableHead DEF Abs!After, t
  <1> QED
    BY <1>1, <1>4, <1>5

LEMMA AfterNothing ==
  ASSUME NEW b \in Seq(Byte)
  PROVE  Abs!After(b, 0) = b
  <1>1. SubSeq(b, 1, Len(b)) = b /\ 0 + 1 = 1
    BY SubSeqFull
  <1> QED
    BY <1>1 DEF Abs!After

\* Throwing a rejected candidate away is a Discard of the abstract stream.
LEMMA ResyncDiscards ==
  ASSUME TypeOK, Len(buffer) >= 2, ~Abs!Viable(buffer),
         NEW st \in CounterRecords, Resync(st),
         st.gap_resets = stats.gap_resets, UNCHANGED delivered
  PROVE  Abs!Discard
  <1>1. buffer \in Seq(Byte) /\ Len(buffer) \in Nat
    BY LenProperties DEF TypeOK
  <1>2. PICK k \in 0..Len(buffer) : ResyncPoint(buffer, k) /\ DiscardPrefix(k, st)
    BY DEF Resync
  <1>3. k >= 1 /\ k \in 1..Len(buffer)
    BY <1>1, <1>2, ResyncProgress
  <1>4. ASSUME NEW i \in 0..(k - 1)
        PROVE  ~Abs!Viable(Abs!After(buffer, i))
    <2>1. CASE i = 0
      BY <1>1, <2>1, AfterNothing
    <2>2. CASE i # 0
      <3>1. i \in 1..(k - 1)
        BY <1>3, <2>2
      <3> QED
        BY <1>1, <1>2, <3>1, SkippedNotViable
    <2> QED
      BY <2>1, <2>2
  <1>5. buffer' = Abs!After(buffer, k)
    BY <1>2 DEF DiscardPrefix, Abs!After
  <1>6. stats'.gap_resets = stats.gap_resets
    <2>1. "gap_resets" \in Counters \ {"discarded_bytes"}
      BY DEF Counters
    <2> QED
      BY <2>1, ResyncEffect
  <1> QED
    BY <1>3, <1>4, <1>5, <1>6 DEF Abs!Discard

\* One iteration of the parse loop waits, or is a Deliver or a Discard.
LEMMA ParseSimulates ==
  ASSUME TypeInv, Parse
  PROVE  Abs!Deliver \/ Abs!Discard \/ UNCHANGED Abs!abs
  <1>1. /\ TypeOK /\ buffer \in Seq(Byte) /\ Len(buffer) \in Nat
        /\ stats \in CounterRecords
        /\ HeaderSize \in Nat /\ HeaderSize >= 5
    BY LenProperties, WireAssumption DEF TypeInv, TypeOK, CounterRecords
  <1>2. ASSUME Len(buffer) >= 2, ~Abs!Viable(buffer), UNCHANGED delivered,
               NEW c \in Counters \ {"gap_resets"},
               Resync(stats) \/ Resync(Count(stats, c))
        PROVE  Abs!Discard
    <2>1. Count(stats, c) \in CounterRecords
      BY <1>1, CountTyped DEF CounterRecords
    <2>2. Count(stats, c).gap_resets = stats.gap_resets
      BY <1>1 DEF Count, CounterRecords, Counters
    <2> QED
      BY <1>1, <1>2, <2>1, <2>2, ResyncDiscards
  <1>3. CASE DropStrayByte
    <2>1. Len(buffer) = 1 /\ buffer[1] # Magic0 /\ UNCHANGED delivered
      BY <1>3 DEF DropStrayByte
    <2>2. buffer' = Abs!After(buffer, 1) /\ stats'.gap_resets = stats.gap_resets
      BY <1>1, <1>3 DEF DropStrayByte, DiscardPrefix, Abs!After,
                        CounterRecords, Counters
    <2>3. ~Abs!Viable(Abs!After(buffer, 0))
      BY <1>1, <2>1, ViableHead, AfterNothing
    <2>4. /\ 1 \in 1..Len(buffer)
          /\ \A i \in 0..(1 - 1) : ~Abs!Viable(Abs!After(buffer, i))
      BY <2>1, <2>3
    <2> QED
      BY <2>1, <2>2, <2>4 DEF Abs!Discard
  <1>4. CASE AwaitMore
    BY <1>4 DEF AwaitMore, Abs!abs
  <1>5. CASE RejectMagic
    <2>1. /\ Len(buffer) >= 2 /\ ~HasMagic(buffer)
          /\ Resync(stats) /\ UNCHANGED delivered
      BY <1>5 DEF RejectMagic
    <2>2. ~Abs!Viable(buffer)
      BY <1>1, <2>1, ViableHead
    <2>3. "frames" \in Counters \ {"gap_resets"}
      BY DEF Counters
    <2> QED
      BY <1>2, <2>1, <2>2, <2>3
  <1>6. CASE RejectVersion
    <2>1. /\ Len(buffer) >= HeaderSize /\ Len(buffer) >= 2
          /\ buffer[3] # ProtocolVersion
          /\ Resync(Count(stats, "version_errors")) /\ UNCHANGED delivered
      BY <1>1, <1>6 DEF RejectVersion, HeaderRead
    <2>2. ~Abs!Viable(buffer)
      BY <1>1, <2>1, ViableHead
    <2>3. "version_errors" \in Counters \ {"gap_resets"}
      BY DEF Counters
    <2> QED
      BY <1>2, <2>1, <2>2, <2>3
  <1>7. CASE RejectLength
    <2>1. /\ Len(buffer) >= HeaderSize /\ Len(buffer) >= 2
          /\ PayloadLength(buffer) > MaxPayload
          /\ Resync(Count(stats, "length_errors")) /\ UNCHANGED delivered
      BY <1>1, <1>7 DEF RejectLength, LengthRead, HeaderRead
    <2>2. PayloadLength(buffer) \in Nat /\ MaxPayload \in Nat
      BY <1>1, <2>1, FrameLengthBounds, WireAssumption
    <2>3. ~(PayloadLength(buffer) <= MaxPayload)
      BY <2>1, <2>2
    <2>4. ~Abs!Viable(buffer)
      BY <1>1, <2>1, <2>3, ViableHead
    <2>5. "length_errors" \in Counters \ {"gap_resets"}
      BY DEF Counters
    <2> QED
      BY <1>2, <2>1, <2>4, <2>5
  <1>8. ASSUME FrameRead
        PROVE  Complete(buffer) /\ Candidate = HeadOf(buffer)
    BY <1>8 DEF FrameRead, FrameComplete, FramePlausible, LengthRead, HeaderRead,
                Complete, Candidate, HeadOf
  <1>9. CASE RejectFrame
    <2>1. /\ FrameRead /\ DecodeResult(Candidate) # "OK" /\ UNCHANGED delivered
          /\ \/ Resync(Count(stats, "crc_errors"))
             \/ Resync(Count(stats, "length_errors"))
      BY <1>9 DEF RejectFrame
    <2>2. Complete(buffer) /\ DecodeResult(HeadOf(buffer)) # "OK"
      BY <1>8, <2>1
    <2>3. ~Abs!Viable(buffer) /\ Len(buffer) >= 2
      BY <1>1, <2>2, ViableHead DEF Complete
    <2>4. /\ "crc_errors" \in Counters \ {"gap_resets"}
          /\ "length_errors" \in Counters \ {"gap_resets"}
      BY DEF Counters
    <2> QED
      BY <1>2, <2>1, <2>3, <2>4
  <1>10. CASE EmitFrame
    <2> DEFINE n == PayloadLength(buffer)
               f == FrameMeant(buffer, n)
    <2>1. /\ FrameRead /\ DecodeResult(Candidate) = "OK"
          /\ delivered' = Append(delivered, Candidate)
          /\ stats' = Count(stats, "frames")
          /\ buffer' = SubSeq(buffer, FrameLength(buffer) + 1, Len(buffer))
      BY <1>10 DEF EmitFrame
    <2>2. Complete(buffer) /\ Candidate = HeadOf(buffer)
      BY <1>8, <2>1
    <2>3. HeadOf(buffer) = f
      BY <1>1, <2>1, <2>2, AcceptedIsMeant
    <2>4. Abs!IsPrefix(f, buffer) /\ Len(f) = FrameLength(buffer)
      BY <1>1, <2>2, <2>3, MeantPrefix
    <2>5. f \in Reencoded(buffer)
      BY <1>1, <2>2, CandidateTyped DEF Reencoded, FrameMeant
    <2> HIDE DEF f
    <2>6. buffer' = Abs!After(buffer, Len(f)) /\ delivered' = Append(delivered, f)
      BY <2>1, <2>2, <2>3, <2>4 DEF Abs!After
    <2>7. stats'.gap_resets = stats.gap_resets
      BY <1>1, <2>1 DEF Count, CounterRecords, Counters
    <2> QED
      BY <2>4, <2>5, <2>6, <2>7 DEF Abs!Deliver
  <1> QED
    BY <1>3, <1>4, <1>5, <1>6, <1>7, <1>9, <1>10 DEF Parse

\* A gap reset gives up on a candidate that is not a frame yet.
LEMMA GapAbandons ==
  ASSUME TypeInv, IdleCandidate, GapReset
  PROVE  Abs!Abandon
  <1>1. /\ buffer \in Seq(Byte) /\ Len(buffer) \in Nat
        /\ stats \in CounterRecords /\ stats.gap_resets \in 0..(CounterMod - 1)
        /\ HeaderSize \in Nat /\ HeaderSize >= 5
    BY LenProperties, WireAssumption
       DEF TypeInv, TypeOK, CounterRecords, Counters
  <1>2. /\ pc = "idle" /\ buffer # <<>> /\ buffer' = <<>> /\ UNCHANGED delivered
        /\ stats' = [Count(stats, "gap_resets")
                       EXCEPT !.discarded_bytes = Plus(@, Len(buffer))]
    BY DEF GapReset
  <1>3. ASSUME NEW f \in Reencoded(buffer), Abs!IsPrefix(f, buffer)
        PROVE  FALSE
    <2>1. Complete(buffer)
      BY <1>1, <1>3, FrameIsComplete
    <2>2. Len(buffer) < FrameLength(buffer)
      BY <1>1, <1>2, <2>1 DEF Complete, IdleCandidate
    <2>3. FrameLength(buffer) \in Nat /\ Len(buffer) >= FrameLength(buffer)
      BY <1>1, <2>1, FrameLengthBounds DEF Complete
    <2> QED
      BY <1>1, <2>2, <2>3
  <1>4. stats'.gap_resets = Plus(stats.gap_resets, 1)
    BY <1>1, <1>2 DEF Count, CounterRecords, Counters
  <1>5. Plus(stats.gap_resets, 1) # stats.gap_resets
    <2> DEFINE g == stats.gap_resets
    <2>1. g \in 0..(CounterMod - 1) /\ CounterMod \in Nat /\ CounterMod > 1
      BY <1>1, DecoderAssumption
    <2> HIDE DEF g
    <2>2. CASE g = CounterMod - 1
      <3>1. (g + 1) % CounterMod = 0
        BY <2>1, <2>2
      <3> QED
        BY <2>1, <2>2, <3>1 DEF Plus, g
    <2>3. CASE g # CounterMod - 1
      <3>1. (g + 1) % CounterMod = g + 1
        BY <2>1, <2>3
      <3> QED
        BY <2>1, <3>1 DEF Plus, g
    <2> QED
      BY <2>2, <2>3
  <1> QED
    BY <1>2, <1>3, <1>4, <1>5 DEF Abs!Abandon

\* A byte is appended whole: the full-buffer branch is never taken.
LEMMA ReadReceives ==
  ASSUME TypeInv, Len(buffer) < MaxFrame, ReadByte
  PROVE  Abs!Receive
  <1>1. input # <<>> /\ input \in Seq(Byte)
    BY DEF TypeInv, TypeOK, ReadByte
  <1>2. Head(input) \in Byte
    BY <1>1, HeadTailProperties
  <1>3. buffer \in Seq(Byte) /\ Len(buffer) \in Nat /\ MaxFrame \in Nat
    BY LenProperties, WireAssumption DEF TypeInv, TypeOK, MaxFrame
  <1>4. Len(buffer) # MaxFrame
    BY <1>3
  <1>5. buffer' = Append(buffer, Head(input)) /\ UNCHANGED <<stats, delivered>>
    BY <1>4 DEF ReadByte
  <1> QED
    BY <1>2, <1>5 DEF Abs!Receive

LEMMA StepSimulates ==
  TypeInv /\ IdleCandidate /\ RoomForByte /\ [Next]_vars
    => [Abs!AbsNext]_(Abs!abs)
  <1> SUFFICES ASSUME TypeInv, IdleCandidate, RoomForByte, [Next]_vars
               PROVE  Abs!AbsNext \/ UNCHANGED Abs!abs
    OBVIOUS
  <1>1. CASE Feed
    BY <1>1 DEF Feed, Abs!abs
  <1>2. CASE ReadByte
    BY <1>2, ReadReceives DEF RoomForByte, ReadByte, Abs!AbsNext
  <1>3. CASE Parse
    BY <1>3, ParseSimulates DEF Abs!AbsNext
  <1>4. CASE GapReset
    BY <1>4, GapAbandons DEF Abs!AbsNext
  <1>5. CASE UNCHANGED vars
    BY <1>5 DEF vars, Abs!abs
  <1> QED
    BY <1>1, <1>2, <1>3, <1>4, <1>5 DEF Next

\* The decoder implements FrameStream for every frame geometry, every CRC,
\* every input and every way of cutting it into feed calls: only whole frames
\* of the sender are delivered, in order, and only bytes no frame begins at
\* are thrown away, except by reset_incomplete.
THEOREM DecoderImplementsStream == Spec => ImplementsStream
  <1>1. Init => Abs!AbsInit
    BY DEF Init, Abs!AbsInit, Counters
  <1>2. TypeInv /\ IdleCandidate /\ [Next]_vars => (TypeInv /\ IdleCandidate)'
    BY StepTypeInv, StepIdleCandidate
  <1>3. Spec => []RoomForByte
    BY NeverFull
  <1> QED
    BY InitTypeInv, InitIdleCandidate, <1>1, <1>2, <1>3, StepSimulates, PTL
       DEF Spec, ImplementsStream, Abs!AbsSpec

------------------------------------------------------------------------------
(***************************************************************************)
(* The frames of a command.                                                *)
(***************************************************************************)
FramesOf(message) ==
  {CommandFrame(message, lead, before) : lead \in Leads, before \in OldBytes}

\* A frame of a command is accepted by the decoder, and the gate makes of it the
\* message it was made of.
LEMMA FrameOfCommand ==
  ASSUME NEW message \in Commands, NEW f \in FramesOf(message)
  PROVE  /\ f \in Seq(Byte) /\ Len(f) \in Nat \ {0}
         /\ DecodeResult(f) = "OK"
         /\ ValidateFrame(f) = [result |-> "OK", message |-> message]
  <1>1. PICK lead \in Leads, before \in OldBytes :
               f = CommandFrame(message, lead, before)
    BY DEF FramesOf
  <1> DEFINE code == TypeCode[message.type]
             fields == lead \o WriteU16(code)
             m == Len(lead)
  <1>2. /\ lead \in Seq(Octet) /\ m = HeaderSize - 7
        /\ HeaderSize \in Nat /\ HeaderSize >= 7 /\ ByteBase = 256 /\ m \in Nat
    BY LinkAssumption, WireAssumption
  <1>3. /\ Holdable(message) /\ MessageDirection(message.type) \in Endpoint
        /\ ValidateResult(message) = "OK"
        /\ PayloadSize[message.type] <= MaxPayload
    BY LinkAssumption DEF EncodeResult, Endpoint
  <1>4. code \in Nat /\ code <= 65535
    <2>1. message.type \in DOMAIN PayloadSize
      BY <1>3, EndpointTypesDefined, SizedTypes DEF Endpoint
    <2>2. message.type \in DOMAIN TypeCode
      BY <2>1 DEF PayloadSize, TypeCode
    <2> QED
      BY <2>2 DEF TypeCode
  <1> HIDE DEF code, m
  <1>5. WriteU16(code) = <<Low(code), High(code)>>
    BY <1>2 DEF WriteU16, Low, High
  <1>6. /\ <<Low(code), High(code)>> \in Seq(Octet)
        /\ Len(<<Low(code), High(code)>>) = 2
    BY <1>4, HalvesAreOctets
  <1>7. /\ fields \in Seq(Octet) /\ Len(fields) = HeaderSize - 5 /\ Len(fields) >= 2
        /\ Len(fields) = m + 2
    <2>1. fields \in Seq(Octet) /\ Len(fields) = m + 2
      BY <1>2, <1>5, <1>6, JoinedLength DEF m
    <2> HIDE DEF fields
    <2> QED
      BY <1>2, <2>1
  <1>8. fields[m + 1] = Low(code) /\ fields[m + 2] = High(code)
    <2> DEFINE halves == <<Low(code), High(code)>>
    <2>1. 1 \in 1..Len(halves) /\ 2 \in 1..Len(halves)
      BY <1>6
    <2>2. fields = lead \o halves /\ halves \in Seq(Octet)
      BY <1>5, <1>6
    <2>3. halves[1] = Low(code) /\ halves[2] = High(code)
      OBVIOUS
    <2> HIDE DEF halves, fields
    <2>4. fields[m + 1] = halves[1]
      BY <1>2, <2>1, <2>2, RightPart DEF m
    <2>5. fields[m + 2] = halves[2]
      BY <1>2, <2>1, <2>2, RightPart DEF m
    <2> QED
      BY <2>3, <2>4, <2>5
  <1> HIDE DEF fields
  <1>9. ReadU16(fields, Len(fields) - 1) = code
    <2>1. Len(fields) - 1 = m + 1 /\ Len(fields) - 1 + 1 = m + 2
      BY <1>2, <1>7
    <2>2. ReadU16(fields, Len(fields) - 1) = Low(code) + 256 * High(code)
      BY <1>2, <1>8, <2>1 DEF ReadU16
    <2> QED
      BY <1>4, <2>2, HalvesJoined
  <1>10. f = EncodeFrame(fields, BytesWritten(message, before))
    BY <1>1 DEF CommandFrame, fields, code
  <1>11. /\ DecodeResult(f) = "OK"
         /\ ValidateFrame(f) = [result |-> "OK", message |-> message]
    BY <1>2, <1>3, <1>7, <1>9, <1>10, CommandArrives DEF code
  <1>12. f \in Seq(Byte)
    BY <1>1, LinkAssumption
  <1>13. Len(f) \in Nat \ {0}
    BY <1>11, <1>12, AcceptedFits, LenProperties, WireAssumption
  <1> QED
    BY <1>11, <1>12, <1>13

------------------------------------------------------------------------------
(***************************************************************************)
(* The traffic.  Everything the CPU ever sent is one stream of bytes, and  *)
(* each command has its place in it; what has not been handed over yet is  *)
(* the rest of that stream.                                                *)
(***************************************************************************)

\* `stream` is one frame for each of the commands, which end at `ends`.
Traffic(stream, ends, sent) ==
  /\ stream \in Seq(Byte)
  /\ ends \in [0..Len(sent) -> 0..Len(stream)]
  /\ ends[0] = 0 /\ ends[Len(sent)] = Len(stream)
  /\ \A k \in 1..Len(sent) : \E f \in FramesOf(sent[k]) :
       /\ ends[k] = ends[k - 1] + Len(f)
       /\ \A i \in 1..Len(f) : stream[ends[k - 1] + i] = f[i]

\* What is left of a stream once n bytes of it are gone.
IsRest(rest, stream, n) ==
  /\ rest \in Seq(Byte)
  /\ Len(rest) = Len(stream) - n
  /\ \A i \in 1..Len(rest) : rest[i] = stream[n + i]

LEMMA TrafficStarts == Traffic(<<>>, [k \in 0..0 |-> 0], <<>>)
  BY EmptySeq DEF Traffic

LEMMA EndsTyped ==
  ASSUME NEW sent \in Seq(Commands), NEW stream, NEW ends,
         Traffic(stream, ends, sent), NEW k \in 0..Len(sent)
  PROVE  ends[k] \in Nat /\ ends[k] <= Len(stream)
  <1>1. Len(stream) \in Nat
    BY LenProperties DEF Traffic
  <1>2. ends[k] \in 0..Len(stream)
    BY DEF Traffic
  <1> QED
    BY <1>1, <1>2

\* One more command: the stream grows at its end.
LEMMA TrafficGrows ==
  ASSUME NEW sent \in Seq(Commands), NEW stream, NEW ends,
         Traffic(stream, ends, sent),
         NEW message \in Commands, NEW f \in FramesOf(message),
         NEW n \in 0..Len(sent), NEW rest, IsRest(rest, stream, ends[n])
  PROVE  \E further :
           /\ Traffic(stream \o f, further, Append(sent, message))
           /\ \A k \in 0..Len(sent) : further[k] = ends[k]
           /\ IsRest(rest \o f, stream \o f, further[n])
  <1> DEFINE m == Len(sent)
             long == stream \o f
             all == Append(sent, message)
             further == [k \in 0..(m + 1) |-> IF k = m + 1 THEN Len(long) ELSE ends[k]]
  <1>1. /\ f \in Seq(Byte) /\ Len(f) \in Nat
        /\ stream \in Seq(Byte) /\ Len(stream) \in Nat /\ m \in Nat
        /\ rest \in Seq(Byte) /\ Len(rest) \in Nat
    BY FrameOfCommand, LenProperties DEF Traffic, IsRest
  <1>2. /\ long \in Seq(Byte) /\ Len(long) = Len(stream) + Len(f)
        /\ \A i \in 1..Len(stream) : long[i] = stream[i]
        /\ \A i \in 1..Len(f) : \A j \in Nat : j = Len(stream) + i => long[j] = f[i]
    BY <1>1, JoinedLength, LeftPart, RightPart
  <1>3. /\ all \in Seq(Commands) /\ Len(all) = m + 1 /\ all[m + 1] = message
        /\ \A k \in 1..m : all[k] = sent[k]
    BY AppendProperties
  <1>4. /\ \A k \in 0..m : ends[k] \in Nat /\ ends[k] <= Len(stream)
        /\ ends[0] = 0 /\ ends[m] = Len(stream)
    BY EndsTyped DEF Traffic
  <1> HIDE DEF all, long, m
  <1>5. /\ further \in [0..(m + 1) -> 0..Len(long)]
        /\ \A k \in 0..m : further[k] = ends[k]
        /\ further[m + 1] = Len(long)
    BY <1>1, <1>2, <1>4
  <1> HIDE DEF further
  <1>6. ASSUME NEW k \in 1..(m + 1)
        PROVE  \E g \in FramesOf(all[k]) :
                 /\ further[k] = further[k - 1] + Len(g)
                 /\ \A i \in 1..Len(g) : long[further[k - 1] + i] = g[i]
    <2>1. CASE k = m + 1
      <3>1. k - 1 \in 0..m /\ k - 1 = m
        BY <1>1, <2>1
      <3>2. further[k - 1] = Len(stream) /\ further[k] = Len(stream) + Len(f)
        BY <1>2, <1>4, <1>5, <2>1, <3>1
      <3>3. \A i \in 1..Len(f) : long[further[k - 1] + i] = f[i]
        BY <1>1, <1>2, <3>2
      <3> QED
        BY <1>3, <2>1, <3>2, <3>3
    <2>2. CASE k # m + 1
      <3>1. k \in 1..m /\ k \in 0..m /\ k - 1 \in 0..m
        BY <1>1, <2>2
      <3>2. PICK g \in FramesOf(sent[k]) :
              /\ ends[k] = ends[k - 1] + Len(g)
              /\ \A i \in 1..Len(g) : stream[ends[k - 1] + i] = g[i]
        BY <3>1 DEF Traffic, m
      <3>3. sent[k] \in Commands
        BY <3>1, ElementOfSeq DEF m
      <3>4. Len(g) \in Nat
        BY <3>2, <3>3, FrameOfCommand
      <3>5. \A i \in 1..Len(g) : long[ends[k - 1] + i] = g[i]
        <4>1. \A i \in 1..Len(g) : ends[k - 1] + i \in 1..Len(stream)
          <5>1. /\ ends[k - 1] \in Nat /\ ends[k] \in Nat /\ ends[k] <= Len(stream)
                /\ ends[k] = ends[k - 1] + Len(g)
            BY <1>4, <3>1, <3>2
          <5> QED
            BY <1>1, <3>4, <5>1
        <4> QED
          BY <1>2, <3>2, <4>1
      <3> QED
        BY <1>3, <1>5, <3>1, <3>2, <3>5
    <2> QED
      BY <2>1, <2>2
  <1>7. Traffic(long, further, all)
    <2>1. further[0] = 0
      BY <1>1, <1>4, <1>5
    <2> QED
      BY <1>2, <1>3, <1>5, <1>6, <2>1 DEF Traffic
  <1>8. IsRest(rest \o f, long, further[n])
    <2> DEFINE grown == rest \o f
    <2>1. /\ grown \in Seq(Byte) /\ Len(grown) = Len(rest) + Len(f)
          /\ \A i \in 1..Len(rest) : grown[i] = rest[i]
          /\ \A i \in 1..Len(f) : \A j \in Nat : j = Len(rest) + i => grown[j] = f[i]
      BY <1>1, JoinedLength, LeftPart, RightPart
    <2>2. /\ Len(rest) = Len(stream) - ends[n] /\ ends[n] \in Nat
          /\ \A i \in 1..Len(rest) : rest[i] = stream[ends[n] + i]
      BY <1>4 DEF IsRest, m
    <2>3. further[n] = ends[n]
      BY <1>5 DEF m
    <2> HIDE DEF grown
    <2>4. ASSUME NEW i \in 1..Len(grown)
          PROVE  grown[i] = long[ends[n] + i]
      <3>1. CASE i <= Len(rest)
        <4>1. i \in 1..Len(rest) /\ ends[n] + i \in 1..Len(stream)
          BY <1>1, <2>2, <3>1
        <4> QED
          BY <1>2, <2>1, <2>2, <4>1
      <3>2. CASE i > Len(rest)
        <4> DEFINE x == i - Len(rest)
        <4>1. /\ x \in 1..Len(f) /\ i = Len(rest) + x /\ i \in Nat
              /\ ends[n] + i \in Nat /\ ends[n] + i = Len(stream) + x
          <5>1. /\ Len(grown) = Len(rest) + Len(f) /\ i \in 1..Len(grown)
                /\ Len(rest) = Len(stream) - ends[n] /\ ends[n] \in Nat
            BY <2>1, <2>2
          <5>2. i \in Nat /\ i <= Len(rest) + Len(f) /\ i > Len(rest)
            BY <1>1, <3>2, <5>1
          <5>3. x \in 1..Len(f) /\ i = Len(rest) + x
            BY <1>1, <5>2
          <5>4. ends[n] + i = Len(stream) + x
            BY <1>1, <5>1, <5>2
          <5>5. ends[n] + i \in Nat
            BY <5>1, <5>2
          <5> HIDE DEF x
          <5> QED
            BY <5>2, <5>3, <5>4, <5>5, Zenon
        <4> HIDE DEF x
        <4> QED
          BY <1>2, <2>1, <4>1
      <3> QED
        BY <1>1, <3>1, <3>2
    <2> QED
      BY <1>1, <1>2, <2>1, <2>2, <2>3, <2>4 DEF IsRest, grown
  <1> QED
    BY <1>5, <1>7, <1>8 DEF all, long, m

BeginsWith(rest, f) == /\ Len(f) <= Len(rest)
                       /\ \A i \in 1..Len(f) : rest[i] = f[i]

\* While a command is not handed over, its frame stands at the head of the rest.
LEMMA RestBegins ==
  ASSUME NEW sent \in Seq(Commands), NEW stream, NEW ends,
         Traffic(stream, ends, sent),
         NEW n \in 0..Len(sent), n < Len(sent),
         NEW rest, IsRest(rest, stream, ends[n])
  PROVE  \E f \in FramesOf(sent[n + 1]) :
           /\ sent[n + 1] \in Commands
           /\ ends[n + 1] = ends[n] + Len(f)
           /\ BeginsWith(rest, f)
  <1>1. /\ Len(sent) \in Nat /\ n + 1 \in 1..Len(sent) /\ n + 1 \in 0..Len(sent)
        /\ n + 1 - 1 = n
    BY LenProperties
  <1>2. PICK f \in FramesOf(sent[n + 1]) :
          /\ ends[n + 1] = ends[n + 1 - 1] + Len(f)
          /\ \A i \in 1..Len(f) : stream[ends[n + 1 - 1] + i] = f[i]
    BY <1>1 DEF Traffic
  <1>3. sent[n + 1] \in Commands /\ Len(f) \in Nat
    BY <1>1, <1>2, ElementOfSeq, FrameOfCommand
  <1>4. /\ ends[n] \in Nat /\ ends[n + 1] \in Nat /\ ends[n + 1] <= Len(stream)
        /\ Len(stream) \in Nat
    BY <1>1, EndsTyped, LenProperties DEF Traffic
  <1>5. Len(f) <= Len(rest)
    BY <1>1, <1>2, <1>3, <1>4 DEF IsRest
  <1>6. ASSUME NEW i \in 1..Len(f)
        PROVE  rest[i] = f[i]
    <2>1. i \in 1..Len(rest)
      <3>1. Len(rest) \in Nat
        BY LenProperties DEF IsRest
      <3> QED
        BY <1>3, <1>5, <3>1
    <2>2. rest[i] = stream[ends[n] + i]
      BY <2>1 DEF IsRest
    <2> QED
      BY <1>1, <1>2, <2>2
  <1> QED
    BY <1>1, <1>2, <1>3, <1>5, <1>6 DEF BeginsWith

\* So its frame has a length, and when nothing of the rest is left nothing waits.
LEMMA NextFrameLength ==
  ASSUME NEW sent \in Seq(Commands), NEW stream, NEW ends,
         Traffic(stream, ends, sent),
         NEW n \in 0..Len(sent), NEW rest, IsRest(rest, stream, ends[n])
  PROVE  /\ n < Len(sent) => ends[n + 1] - ends[n] > 0 /\ rest # <<>>
         /\ n = Len(sent) => rest = <<>>
  <1>1. ASSUME n < Len(sent)
        PROVE  ends[n + 1] - ends[n] > 0 /\ rest # <<>>
    <2>1. PICK f \in FramesOf(sent[n + 1]) :
            /\ sent[n + 1] \in Commands
            /\ ends[n + 1] = ends[n] + Len(f) /\ Len(f) <= Len(rest)
      BY <1>1, RestBegins DEF BeginsWith
    <2>2. Len(f) \in Nat \ {0} /\ ends[n] \in Nat /\ rest \in Seq(Byte)
      BY <2>1, FrameOfCommand, EndsTyped DEF IsRest
    <2>3. Len(rest) \in Nat /\ Len(rest) # 0
      BY <2>1, <2>2, LenProperties
    <2> QED
      BY <2>1, <2>2, <2>3, EmptySeq
  <1>2. ASSUME n = Len(sent)
        PROVE  rest = <<>>
    <2>1. rest \in Seq(Byte) /\ Len(rest) = Len(stream) - Len(stream)
      BY <1>2 DEF Traffic, IsRest
    <2>2. stream \in Seq(Byte)
      BY DEF Traffic
    <2>3. Len(rest) = 0
      BY <2>1, <2>2, LenProperties
    <2> QED
      BY <2>1, <2>3, EmptySeq
  <1> QED
    BY <1>1, <1>2

------------------------------------------------------------------------------
(***************************************************************************)
(* The invariant of the link.                                              *)
(***************************************************************************)
Waiting == buffer \o input \o line

\* The next command's frame has not been read beyond its end, and to its end only
\* while the parse loop still has to see it.
Transit(stream, ends) ==
  LET n == Len(dispatched)
  IN  /\ Traffic(stream, ends, asked)
      /\ IsRest(Waiting, stream, ends[n])
      /\ n < Len(asked) =>
           /\ Len(buffer) <= ends[n + 1] - ends[n]
           /\ pc # "parse" => Len(buffer) < ends[n + 1] - ends[n]

InTransit == \E stream, ends : Transit(stream, ends)

InOrder ==
  /\ Len(dispatched) <= Len(asked)
  /\ \A i \in 1..Len(dispatched) : dispatched[i].message = asked[i]

LinkTyped ==
  /\ asked \in Seq(Commands) /\ line \in Seq(Byte)
  /\ pc = "idle" => input = <<>>
  /\ pc = "parse" => buffer # <<>>

LinkInv ==
  /\ IngressInv /\ CallsInv /\ LinkTyped
  /\ InOrder /\ UndamagedBooks /\ InTransit

LEMMA Types ==
  ASSUME LinkInv
  PROVE  /\ buffer \in Seq(Byte) /\ Len(buffer) \in Nat /\ Len(buffer) <= MaxFrame
         /\ input \in Seq(Byte) /\ line \in Seq(Byte) /\ asked \in Seq(Commands)
         /\ dispatched \in Seq(Calls) /\ Len(dispatched) \in Nat /\ Len(asked) \in Nat
         /\ Len(dispatched) \in 0..Len(asked)
         /\ TypeInv /\ IngressTyped /\ stats \in [Counters -> 0..(CounterMod - 1)]
         /\ MaxFrame \in Nat
  <1>1. /\ TypeInv /\ IngressTyped /\ dispatched \in Seq(Calls)
        /\ line \in Seq(Byte) /\ asked \in Seq(Commands)
        /\ Len(dispatched) <= Len(asked)
    BY DEF LinkInv, IngressInv, CallsInv, LinkTyped, InOrder
  <1>2. /\ buffer \in Seq(Byte) /\ Len(buffer) <= MaxFrame /\ input \in Seq(Byte)
        /\ stats \in [Counters -> 0..(CounterMod - 1)]
    BY <1>1 DEF TypeInv, TypeOK
  <1>3. Len(buffer) \in Nat /\ Len(dispatched) \in Nat /\ Len(asked) \in Nat
    BY <1>1, <1>2, LenProperties
  <1>4. MaxFrame \in Nat
    BY WireAssumption DEF MaxFrame
  <1> QED
    BY <1>1, <1>2, <1>3, <1>4

\* What the gate has to tell a command by: its frame, of which the decoder holds
\* the beginning.
LEMMA NextCommand ==
  ASSUME LinkInv, NEW stream, NEW ends, Transit(stream, ends),
         Len(dispatched) < Len(asked)
  PROVE  \E f \in FramesOf(asked[Len(dispatched) + 1]) :
           /\ f \in Seq(Byte) /\ DecodeResult(f) = "OK"
           /\ ValidateFrame(f)
                = [result |-> "OK", message |-> asked[Len(dispatched) + 1]]
           /\ Len(f) \in Nat \ {0} /\ Len(f) <= MaxFrame
           /\ ends[Len(dispatched) + 1] - ends[Len(dispatched)] = Len(f)
           /\ ends[Len(dispatched) + 1] = ends[Len(dispatched)] + Len(f)
           /\ Len(buffer) <= Len(f)
           /\ \A i \in 1..Len(buffer) : buffer[i] = f[i]
  <1> DEFINE n == Len(dispatched)
  <1>1. /\ Traffic(stream, ends, asked) /\ IsRest(Waiting, stream, ends[n])
        /\ Len(buffer) <= ends[n + 1] - ends[n]
    BY DEF Transit
  <1>2. n \in 0..Len(asked) /\ n < Len(asked) /\ asked \in Seq(Commands)
    BY Types
  <1>3. PICK f \in FramesOf(asked[n + 1]) :
          /\ asked[n + 1] \in Commands
          /\ ends[n + 1] = ends[n] + Len(f)
          /\ \A i \in 1..Len(f) : Waiting[i] = f[i]
    <2> DEFINE w == Waiting
               sent == asked
    <2> HIDE DEF n, w, sent
    <2>1. n \in 0..Len(sent) /\ n < Len(sent) /\ sent \in Seq(Commands)
      BY <1>2 DEF sent
    <2>2. Traffic(stream, ends, sent) /\ IsRest(w, stream, ends[n])
      BY <1>1 DEF sent, w
    <2>3. \E f \in FramesOf(sent[n + 1]) :
            /\ sent[n + 1] \in Commands
            /\ ends[n + 1] = ends[n] + Len(f)
            /\ BeginsWith(w, f)
      BY <2>1, <2>2, RestBegins
    <2> QED
      BY <2>3 DEF sent, w, BeginsWith
  <1>4. /\ f \in Seq(Byte) /\ Len(f) \in Nat \ {0} /\ DecodeResult(f) = "OK"
        /\ ValidateFrame(f) = [result |-> "OK", message |-> asked[n + 1]]
        /\ ends[n] \in Nat
    <2>1. ends[n] \in Nat
      <3> HIDE DEF n
      <3> QED
        BY <1>1, <1>2, EndsTyped
    <2> QED
      BY <1>3, <2>1, FrameOfCommand
  <1>5. Len(f) <= MaxFrame
    BY <1>4, AcceptedFits
  <1>6. ends[n + 1] - ends[n] = Len(f) /\ Len(buffer) <= Len(f)
    BY <1>1, <1>3, <1>4
  <1>7. \A i \in 1..Len(buffer) : buffer[i] = Waiting[i]
    <2> DEFINE behind == input \o line
    <2>1. /\ buffer \in Seq(Byte) /\ input \in Seq(Byte) /\ line \in Seq(Byte)
          /\ behind \in Seq(Byte)
      BY Types, ConcatProperties
    <2>2. Waiting = buffer \o behind
      BY <2>1, JoinBytes DEF Waiting
    <2> HIDE DEF behind
    <2> QED
      BY <2>1, <2>2, LeftPart
  <1>8. \A i \in 1..Len(buffer) : buffer[i] = f[i]
    BY <1>3, <1>4, <1>6, <1>7, Types
  <1> QED
    BY <1>3, <1>4, <1>5, <1>6, <1>8

LEMMA NothingWaits ==
  ASSUME LinkInv
  PROVE  /\ Len(dispatched) < Len(asked) => Waiting # <<>>
         /\ Len(dispatched) = Len(asked) => Waiting = <<>>
  <1>1. PICK stream, ends : Transit(stream, ends)
    BY DEF LinkInv, InTransit
  <1> DEFINE n == Len(dispatched)
             w == Waiting
             sent == asked
  <1>2. n \in 0..Len(sent) /\ sent \in Seq(Commands)
    BY Types
  <1>3. Traffic(stream, ends, sent) /\ IsRest(w, stream, ends[n])
    BY <1>1 DEF Transit
  <1> HIDE DEF n, w, sent
  <1>4. (n < Len(sent) => w # <<>>) /\ (n = Len(sent) => w = <<>>)
    BY <1>2, <1>3, NextFrameLength
  <1> QED
    BY <1>4 DEF n, w, sent

\* When nothing waits, nothing is in the decoder, in the call or on the line.
LEMMA WaitingParts ==
  ASSUME LinkInv
  PROVE  /\ Waiting = <<>> <=> buffer = <<>> /\ input = <<>> /\ line = <<>>
         /\ Waiting = buffer \o (input \o line)
         /\ Waiting \in Seq(Byte)
  <1>1. /\ buffer \in Seq(Byte) /\ input \in Seq(Byte) /\ line \in Seq(Byte)
        /\ buffer \o input \in Seq(Byte)
    BY Types, ConcatProperties
  <1>2. Waiting = (buffer \o input) \o line
    BY DEF Waiting
  <1>3. Waiting = <<>> <=> buffer \o input = <<>> /\ line = <<>>
    BY <1>1, <1>2, ConcatEqualIffEmpty
  <1>4. buffer \o input = <<>> <=> buffer = <<>> /\ input = <<>>
    BY <1>1, ConcatEqualIffEmpty
  <1> QED
    BY <1>1, <1>2, <1>3, <1>4, JoinBytes, ConcatProperties

\* The gate takes its own steps whatever the link does.
LEMMA GateOfLink == [LinkNext]_linkVars => [IngressNext]_ingressVars
  BY DEF LinkNext, Ask, Carry, LinkStep, IngressNext, linkVars

LEMMA StepGateOfLink ==
  ASSUME LinkInv, [LinkNext]_linkVars
  PROVE  IngressInv' /\ CallsInv'
  BY GateOfLink, StepIngressInv, StepCalls DEF LinkInv

\* The rest that follows a step which moves bytes but neither sends nor hands over.
LEMMA TransitKept ==
  ASSUME NEW stream, NEW ends, Transit(stream, ends),
         UNCHANGED <<asked, dispatched>>, Waiting' = Waiting,
         Len(dispatched) < Len(asked) =>
           /\ Len(buffer') <= ends[Len(dispatched) + 1] - ends[Len(dispatched)]
           /\ pc' # "parse" =>
                Len(buffer') < ends[Len(dispatched) + 1] - ends[Len(dispatched)]
  PROVE  InTransit'
  BY DEF Transit, InTransit

LEMMA AskKeeps ==
  ASSUME LinkInv, Ask
  PROVE  LinkTyped' /\ InOrder' /\ UndamagedBooks' /\ InTransit'
  <1>1. PICK message \in Commands, lead \in Leads, before \in OldBytes :
          /\ asked' = Append(asked, message)
          /\ line' = line \o CommandFrame(message, lead, before)
    BY DEF Ask
  <1> DEFINE f == CommandFrame(message, lead, before)
             n == Len(dispatched)
             sent == asked
             w == Waiting
  <1>2. UNCHANGED <<buffer, stats, input, pc, ingress, dispatched>>
    BY DEF Ask, ingressVars, vars
  <1>3. f \in FramesOf(message) /\ f \in Seq(Byte)
    <2>1. f \in FramesOf(message)
      BY DEF FramesOf
    <2> QED
      BY <2>1, FrameOfCommand
  <1> HIDE DEF f
  <1>4. LinkTyped' /\ UndamagedBooks'
    BY <1>1, <1>2, <1>3, Types, AppendProperties, ConcatProperties
       DEF LinkInv, LinkTyped, UndamagedBooks, f
  <1>5. /\ asked' \in Seq(Commands) /\ Len(asked') = Len(asked) + 1
        /\ \A i \in 1..Len(asked) : asked'[i] = asked[i]
    BY <1>1, Types, AppendProperties
  <1>6. InOrder'
    <2>1. n \in 0..Len(asked) /\ Len(asked) \in Nat
      BY Types
    <2> QED
      BY <1>2, <1>5, <2>1 DEF LinkInv, InOrder
  <1>7. Waiting' = Waiting \o f
    <2> DEFINE taken == buffer \o input
               left == line
    <2>1. taken \in Seq(Byte) /\ left \in Seq(Byte)
      BY Types, ConcatProperties
    <2>2. Waiting = taken \o left /\ Waiting' = taken \o (left \o f)
      BY <1>1, <1>2 DEF Waiting, f
    <2> HIDE DEF taken, left
    <2>3. (taken \o left) \o f = taken \o (left \o f)
      BY <1>3, <2>1, JoinBytes
    <2> QED
      BY <2>2, <2>3
  <1>8. PICK stream, ends : Transit(stream, ends)
    BY DEF LinkInv, InTransit
  <1>9. /\ Traffic(stream, ends, sent) /\ IsRest(w, stream, ends[n])
        /\ n \in 0..Len(sent) /\ sent \in Seq(Commands)
    BY <1>8, Types DEF Transit
  <1>10. PICK further : /\ Traffic(stream \o f, further, Append(sent, message))
                        /\ \A k \in 0..Len(sent) : further[k] = ends[k]
                        /\ IsRest(w \o f, stream \o f, further[n])
    <2> HIDE DEF sent, w, n
    <2> QED
      BY <1>3, <1>9, TrafficGrows
  <1> DEFINE long == stream \o f
  <1>11. /\ Traffic(long, further, asked') /\ IsRest(Waiting', long, further[n])
    BY <1>1, <1>7, <1>10
  <1>12. /\ Len(buffer) <= further[n + 1] - further[n]
         /\ pc # "parse" => Len(buffer) < further[n + 1] - further[n]
    <2>1. CASE n < Len(asked)
      <3>1. /\ Len(buffer) <= ends[n + 1] - ends[n]
            /\ pc # "parse" => Len(buffer) < ends[n + 1] - ends[n]
        BY <1>8, <2>1 DEF Transit
      <3>2. n \in 0..Len(asked) /\ n + 1 \in 0..Len(asked)
        BY <2>1, Types
      <3>3. further[n] = ends[n] /\ further[n + 1] = ends[n + 1]
        BY <1>10, <3>2
      <3> QED
        BY <3>1, <3>3
    <2>2. CASE n = Len(asked)
      <3>1. buffer = <<>>
        BY <2>2, NothingWaits, WaitingParts
      <3>2. further[n + 1] - further[n] > 0
        <4> DEFINE all == asked'
                   v == Waiting'
        <4>1. n \in 0..Len(all) /\ n < Len(all) /\ all \in Seq(Commands)
          BY <1>5, <2>2, Types
        <4>2. Traffic(long, further, all) /\ IsRest(v, long, further[n])
          BY <1>11
        <4> HIDE DEF all, v, n, long
        <4> QED
          BY <4>1, <4>2, NextFrameLength
      <3>3. pc # "parse" /\ Len(buffer) = 0
        BY <3>1, EmptySeq DEF LinkInv, LinkTyped
      <3>4. further[n] \in Nat /\ further[n + 1] \in Nat
        <4> DEFINE all == asked'
        <4>1. n \in 0..Len(all) /\ n + 1 \in 0..Len(all) /\ all \in Seq(Commands)
          BY <1>5, <2>2, Types
        <4>2. Traffic(long, further, all)
          BY <1>11
        <4> HIDE DEF all, n, long
        <4> QED
          BY <4>1, <4>2, EndsTyped
      <3> QED
        BY <3>2, <3>3, <3>4
    <2> QED
      BY <2>1, <2>2, Types
  <1>13. Transit(long, further)'
    BY <1>2, <1>11, <1>12 DEF Transit
  <1> QED
    BY <1>4, <1>6, <1>13 DEF InTransit

LEMMA CarryKeeps ==
  ASSUME LinkInv, Carry
  PROVE  LinkTyped' /\ InOrder' /\ UndamagedBooks' /\ InTransit'
  <1>1. PICK n \in 1..Len(line) : /\ input' = SubSeq(line, 1, n)
                                  /\ line' = SubSeq(line, n + 1, Len(line))
    BY DEF Carry
  <1>2. /\ UNCHANGED <<buffer, stats, ingress, dispatched, asked>>
        /\ pc = "idle" /\ pc' = "read" /\ input = <<>>
    BY DEF Carry, IngressFeed, Feed, LinkInv, LinkTyped
  <1>3. /\ buffer \in Seq(Byte) /\ line \in Seq(Byte) /\ Len(line) \in Nat
        /\ asked \in Seq(Commands)
    BY Types, LenProperties
  <1>4. input' \in Seq(Byte) /\ line' \in Seq(Byte) /\ input' \o line' = line
    <2>1. /\ 1 \in 1..(Len(line) + 1) /\ n \in 0..Len(line)
          /\ Len(line) \in n..Len(line)
      BY <1>3
    <2>2. \A i \in 1..Len(line) : line[i] \in Byte
      BY <1>3, ElementOfSeq
    <2>3. SubSeq(line, 1, n) \o SubSeq(line, n + 1, Len(line)) = SubSeq(line, 1, Len(line))
      BY <1>3, <2>1, ConcatAdjacentSubSeq
    <2>4. SubSeq(line, 1, n) \in Seq(Byte) /\ SubSeq(line, n + 1, Len(line)) \in Seq(Byte)
      BY <1>3, <2>2, SubSeqProperties
    <2> QED
      BY <1>1, <1>3, <2>3, <2>4, SubSeqFull
  <1>5. Waiting' = Waiting
    <2>1. Waiting = buffer \o line
      BY <1>2, <1>3, ConcatEmptySeq DEF Waiting
    <2>2. Waiting' = (buffer \o input') \o line'
      BY <1>2 DEF Waiting
    <2>3. (buffer \o input') \o line' = buffer \o (input' \o line')
      <3> DEFINE held == buffer
                 piece == input'
                 left == line'
      <3>1. held \in Seq(Byte) /\ piece \in Seq(Byte) /\ left \in Seq(Byte)
        BY <1>3, <1>4
      <3> HIDE DEF held, piece, left
      <3>2. (held \o piece) \o left = held \o (piece \o left)
        BY <3>1, JoinBytes
      <3> QED
        BY <3>2 DEF held, piece, left
    <2> QED
      BY <1>4, <2>1, <2>2, <2>3
  <1>6. LinkTyped' /\ InOrder' /\ UndamagedBooks'
    BY <1>2, <1>3, <1>4 DEF LinkInv, LinkTyped, InOrder, UndamagedBooks
  <1>7. PICK stream, ends : Transit(stream, ends)
    BY DEF LinkInv, InTransit
  <1>8. Len(dispatched) < Len(asked) =>
           /\ Len(buffer') <= ends[Len(dispatched) + 1] - ends[Len(dispatched)]
           /\ pc' # "parse" =>
                Len(buffer') < ends[Len(dispatched) + 1] - ends[Len(dispatched)]
    BY <1>2, <1>7 DEF Transit
  <1> QED
    BY <1>2, <1>5, <1>6, <1>7, <1>8, TransitKept

LEMMA ReadKeeps ==
  ASSUME LinkInv, IngressRead, UNCHANGED <<asked, line>>
  PROVE  LinkTyped' /\ InOrder' /\ UndamagedBooks' /\ InTransit'
  <1>1. PICK stream, ends : Transit(stream, ends)
    BY DEF LinkInv, InTransit
  <1>2. /\ pc = "read" /\ pc' = "parse" /\ input # <<>> /\ input' = Tail(input)
        /\ UNCHANGED <<ingress, dispatched>>
    BY Types DEF IngressRead, ReadByte, TypeInv
  <1>3. Len(dispatched) < Len(asked)
    BY <1>2, Types, NothingWaits, WaitingParts
  <1>4. PICK f \in FramesOf(asked[Len(dispatched) + 1]) :
          /\ Len(f) \in Nat \ {0} /\ Len(f) <= MaxFrame
          /\ ends[Len(dispatched) + 1] - ends[Len(dispatched)] = Len(f)
    BY <1>1, <1>3, NextCommand
  <1>5. Len(buffer) < Len(f) /\ Len(buffer) # MaxFrame
    <2>1. Len(buffer) < Len(f)
      BY <1>1, <1>2, <1>3, <1>4 DEF Transit
    <2> QED
      BY <1>4, <2>1, Types
  <1>6. buffer' = Append(buffer, Head(input)) /\ stats' = stats
    BY <1>5 DEF IngressRead, ReadByte
  <1>7. Waiting' = Waiting
    <2>1. Append(buffer, Head(input)) \o Tail(input) \o line = buffer \o input \o line
      <3>1. buffer \in Seq(Byte) /\ input \in Seq(Byte) /\ line \in Seq(Byte)
        BY Types
      <3> QED
        BY <1>2, <3>1, ByteMovesOn
    <2> QED
      BY <1>2, <1>6, <2>1 DEF Waiting
  <1>8. Len(buffer') = Len(buffer) + 1 /\ buffer' # <<>> /\ Len(buffer) \in Nat
    <2>1. Head(input) \in Byte /\ buffer \in Seq(Byte)
      BY <1>2, Types, HeadTailProperties
    <2> QED
      BY <1>6, <2>1, AppendProperties, LenProperties
  <1>9. LinkTyped' /\ InOrder' /\ UndamagedBooks'
    BY <1>2, <1>6, <1>8 DEF LinkInv, LinkTyped, InOrder, UndamagedBooks
  <1>10. Len(dispatched) < Len(asked) =>
           /\ Len(buffer') <= ends[Len(dispatched) + 1] - ends[Len(dispatched)]
           /\ pc' # "parse" =>
                Len(buffer') < ends[Len(dispatched) + 1] - ends[Len(dispatched)]
    BY <1>2, <1>4, <1>5, <1>8
  <1> QED
    BY <1>1, <1>2, <1>7, <1>9, <1>10, TransitKept

\* What an iteration of the parse loop does: it waits for the rest of the next
\* command's frame, or hands that command over and holds nothing any more.
LEMMA ParseOfLink ==
  ASSUME LinkInv, IngressParse, NEW stream, NEW ends, Transit(stream, ends)
  PROVE  /\ Len(dispatched) < Len(asked)
         /\ input' = input /\ (pc' = "idle" => input = <<>>)
         /\ pc' # "parse"
         /\ \/ /\ UNCHANGED <<buffer, stats, ingress, dispatched>>
               /\ Len(buffer) < ends[Len(dispatched) + 1] - ends[Len(dispatched)]
            \/ /\ buffer' = <<>>
               /\ Len(buffer) = ends[Len(dispatched) + 1] - ends[Len(dispatched)]
               /\ stats' = Count(stats, "frames")
               /\ ingress' = Count(ingress, "accepted_messages")
               /\ dispatched' = Append(dispatched,
                     [frame |-> Candidate, message |-> asked[Len(dispatched) + 1]])
               /\ Candidate \in Seq(Byte)
  <1>1. pc = "parse" /\ buffer # <<>> /\ Parse /\ TypeInv /\ Next
    BY Types DEF IngressParse, Parse, LinkInv, LinkTyped, Next
  <1>2. Len(dispatched) < Len(asked)
    BY <1>1, Types, NothingWaits, WaitingParts
  <1>3. input' = input /\ (pc' = "idle" => input = <<>>)
    BY <1>1, ParseLeavesInput
  <1>4. PICK f \in FramesOf(asked[Len(dispatched) + 1]) :
          /\ f \in Seq(Byte) /\ DecodeResult(f) = "OK" /\ Len(f) \in Nat \ {0}
          /\ ValidateFrame(f)
               = [result |-> "OK", message |-> asked[Len(dispatched) + 1]]
          /\ ends[Len(dispatched) + 1] - ends[Len(dispatched)] = Len(f)
          /\ Len(buffer) <= Len(f)
          /\ \A i \in 1..Len(buffer) : buffer[i] = f[i]
    BY <1>2, NextCommand
  <1>5. \/ AwaitMore /\ Len(buffer) < Len(f)
        \/ EmitFrame /\ Candidate = f
    BY <1>1, <1>4, FrameAtHead
  <1>6. CASE AwaitMore /\ Len(buffer) < Len(f)
    <2>1. UNCHANGED <<buffer, stats, delivered>> /\ pc' # "parse"
      BY <1>6 DEF AwaitMore, AfterInput
    <2>2. UNCHANGED <<ingress, dispatched>>
      BY <2>1 DEF IngressParse
    <2> QED
      BY <1>2, <1>3, <1>4, <1>6, <2>1, <2>2
  <1>7. CASE EmitFrame /\ Candidate = f
    <2>1. /\ delivered' = Append(delivered, f) /\ stats' = Count(stats, "frames")
          /\ buffer' = SubSeq(buffer, FrameLength(buffer) + 1, Len(buffer))
          /\ pc' = AfterShrink /\ Len(buffer) >= HeaderSize
          /\ Len(buffer) >= FrameLength(buffer)
      BY <1>7 DEF EmitFrame, FrameRead, FrameComplete, FramePlausible, LengthRead, HeaderRead
    <2>2. Len(buffer) = Len(f) /\ FrameLength(buffer) = Len(buffer)
      <3>1. /\ buffer \in Seq(Byte) /\ Len(buffer) \in Nat
            /\ FrameLength(buffer) \in Nat
        BY <2>1, Types, FrameLengthBounds
      <3>2. Len(SubSeq(buffer, 1, FrameLength(buffer))) = FrameLength(buffer)
        <4>1. \A i \in 1..FrameLength(buffer) : buffer[i] \in Byte
          BY <2>1, <3>1, ElementOfSeq
        <4> QED
          BY <3>1, <4>1, SubSeqProperties
      <3>3. Len(f) = FrameLength(buffer)
        BY <1>7, <3>2 DEF Candidate
      <3> QED
        BY <1>4, <2>1, <3>1, <3>3
    <2>3. buffer' = <<>> /\ pc' # "parse"
      <3>1. buffer \in Seq(Byte) /\ Len(buffer) \in Nat
        BY Types
      <3>2. buffer' = <<>>
        BY <2>1, <2>2, <3>1, SubSeqEmpty
      <3>3. ~ (Len(buffer') >= 2)
        BY <3>2
      <3> QED
        BY <2>1, <3>2, <3>3 DEF AfterShrink, AfterInput
    <2>4. delivered' # delivered
      <3>1. delivered \in Seq(Seq(Byte))
        BY <1>1 DEF TypeInv, TypeOK
      <3> QED
        BY <1>4, <2>1, <3>1, AppendProperties, LenProperties
    <2>5. HandleFrame(f)
      BY <1>7, <2>4 DEF IngressParse
    <2>6. /\ ingress' = Count(ingress, "accepted_messages")
          /\ dispatched' = Append(dispatched,
                [frame |-> f, message |-> asked[Len(dispatched) + 1]])
      BY <1>4, <2>5 DEF HandleFrame
    <2> QED
      BY <1>2, <1>3, <1>4, <1>7, <2>1, <2>2, <2>3, <2>6
  <1> QED
    BY <1>5, <1>6, <1>7

\* What is left of a stream once the first part of a rest of it is gone too.
LEMMA RestOfRest ==
  ASSUME NEW stream \in Seq(Byte), NEW n \in Nat, NEW first \in Seq(Byte),
         NEW rest \in Seq(Byte), IsRest(first \o rest, stream, n)
  PROVE  IsRest(rest, stream, n + Len(first))
  <1> DEFINE all == first \o rest
             m == Len(first)
  <1>1. /\ Len(all) = m + Len(rest) /\ m \in Nat /\ Len(rest) \in Nat
        /\ Len(stream) \in Nat
        /\ \A i \in 1..Len(rest) : \A j \in Nat : j = m + i => all[j] = rest[i]
    BY JoinedLength, RightPart, LenProperties
  <1>2. /\ Len(all) = Len(stream) - n
        /\ \A j \in 1..Len(all) : all[j] = stream[n + j]
    BY DEF IsRest
  <1> HIDE DEF all, m
  <1>3. ASSUME NEW i \in 1..Len(rest)
        PROVE  rest[i] = stream[n + m + i]
    <2> DEFINE j == m + i
    <2>1. j \in Nat /\ j \in 1..Len(all) /\ n + j = n + m + i /\ j = m + i
      BY <1>1
    <2> HIDE DEF j
    <2> QED
      BY <1>1, <1>2, <2>1
  <1>4. Len(rest) = Len(stream) - (n + m)
    <2>1. m + Len(rest) = Len(stream) - n /\ m \in Nat /\ Len(rest) \in Nat
          /\ Len(stream) \in Nat
      BY <1>1, <1>2
    <2> QED
      BY <2>1
  <1> QED
    BY <1>1, <1>3, <1>4 DEF IsRest, m

LEMMA ParseKeeps ==
  ASSUME LinkInv, IngressParse, UNCHANGED <<asked, line>>
  PROVE  LinkTyped' /\ InOrder' /\ UndamagedBooks' /\ InTransit'
  <1>1. PICK stream, ends : Transit(stream, ends)
    BY DEF LinkInv, InTransit
  <1> DEFINE n == Len(dispatched)
  <1>2. /\ n < Len(asked) /\ n \in Nat /\ Len(asked) \in Nat /\ n \in 0..Len(asked)
        /\ input' = input /\ (pc' = "idle" => input = <<>>)
        /\ pc' # "parse"
    BY <1>1, ParseOfLink, Types
  <1>3. LinkTyped'
    BY <1>2 DEF LinkInv, LinkTyped
  <1>4. CASE /\ UNCHANGED <<buffer, stats, ingress, dispatched>>
             /\ Len(buffer) < ends[n + 1] - ends[n]
    <2>1. InOrder' /\ UndamagedBooks'
      BY <1>4 DEF LinkInv, InOrder, UndamagedBooks
    <2>2. Waiting' = Waiting
      BY <1>2, <1>4 DEF Waiting
    <2>3. /\ Len(buffer') <= ends[n + 1] - ends[n]
          /\ pc' # "parse" => Len(buffer') < ends[n + 1] - ends[n]
      BY <1>1, <1>2, <1>4 DEF Transit
    <2> QED
      BY <1>1, <1>3, <1>4, <2>1, <2>2, <2>3, TransitKept
  <1>5. CASE /\ buffer' = <<>>
             /\ Len(buffer) = ends[n + 1] - ends[n]
             /\ stats' = Count(stats, "frames")
             /\ ingress' = Count(ingress, "accepted_messages")
             /\ dispatched' = Append(dispatched,
                   [frame |-> Candidate, message |-> asked[n + 1]])
    <2>1. UndamagedBooks'
      <3>1. /\ stats \in [Counters -> 0..(CounterMod - 1)]
            /\ ingress \in [IngressCounters -> 0..(CounterMod - 1)]
        BY Types DEF IngressTyped
      <3>2. \A c \in {"discarded_bytes", "crc_errors", "version_errors", "length_errors"} :
              stats'[c] = stats[c]
        BY <1>5, <3>1 DEF Count, Counters
      <3>3. \A c \in Rejections : ingress'[c] = ingress[c]
        BY <1>5, <3>1 DEF Count, IngressCounters, Rejections
      <3> QED
        BY <3>2, <3>3 DEF LinkInv, UndamagedBooks
    <2>2. /\ Len(dispatched') = n + 1
          /\ \A i \in 1..n : dispatched'[i] = dispatched[i]
          /\ dispatched'[n + 1].message = asked[n + 1]
      <3> DEFINE call == [frame |-> Candidate, message |-> asked[n + 1]]
                 S == Calls \cup {call}
      <3>1. dispatched \in Seq(S) /\ call \in S
        BY Types
      <3>2. call.message = asked[n + 1] /\ dispatched' = Append(dispatched, call)
        BY <1>5
      <3> HIDE DEF S, call
      <3> QED
        BY <3>1, <3>2, AppendProperties
    <2>3. InOrder'
      <3>1. \A i \in 1..(n + 1) : i \in 1..n \/ i = n + 1
        BY <1>2
      <3> QED
        BY <1>2, <2>2, <3>1 DEF LinkInv, InOrder
    <2>4. /\ Waiting' = input \o line /\ Waiting = buffer \o (input \o line)
          /\ input \o line \in Seq(Byte) /\ buffer \in Seq(Byte)
      BY <1>2, <1>5, Types, WaitingParts, ConcatEmptySeq, ConcatProperties DEF Waiting
    <2>5. Traffic(stream, ends, asked) /\ IsRest(Waiting, stream, ends[n])
      BY <1>1 DEF Transit
    <2>6. ends[n] \in Nat /\ ends[n + 1] \in Nat
      <3> DEFINE sent == asked
      <3>1. sent \in Seq(Commands) /\ n \in 0..Len(sent) /\ n + 1 \in 0..Len(sent)
        BY <1>2, Types
      <3>2. Traffic(stream, ends, sent)
        BY <2>5
      <3> HIDE DEF sent, n
      <3> QED
        BY <3>1, <3>2, EndsTyped
    <2>7. IsRest(Waiting', stream, ends[n + 1])
      <3> DEFINE first == buffer
                 rest == input \o line
                 gone == ends[n]
      <3>1. stream \in Seq(Byte) /\ gone \in Nat /\ first \in Seq(Byte) /\ rest \in Seq(Byte)
        BY <2>4, <2>5, <2>6 DEF Traffic
      <3>2. IsRest(first \o rest, stream, gone)
        BY <2>4, <2>5
      <3>3. ends[n + 1] = gone + Len(first)
        BY <1>5, <2>6, Types
      <3>4. Waiting' = rest
        BY <2>4
      <3> HIDE DEF first, rest, gone
      <3>5. IsRest(rest, stream, gone + Len(first))
        BY <3>1, <3>2, RestOfRest
      <3> QED
        BY <3>3, <3>4, <3>5
    <2>8. n + 1 < Len(asked) => Len(buffer') < ends[n + 1 + 1] - ends[n + 1]
      <3> SUFFICES ASSUME n + 1 < Len(asked)
                   PROVE  0 < ends[n + 1 + 1] - ends[n + 1]
        BY <1>5
      <3> DEFINE sent == asked
                 rest == Waiting'
                 next == n + 1
      <3>1. sent \in Seq(Commands) /\ next \in 0..Len(sent) /\ next < Len(sent)
            /\ next + 1 \in 0..Len(sent)
        BY <1>2, Types
      <3>2. Traffic(stream, ends, sent) /\ IsRest(rest, stream, ends[next])
        BY <2>5, <2>7
      <3> HIDE DEF sent, rest, next
      <3>3. ends[next + 1] - ends[next] > 0
        BY <3>1, <3>2, NextFrameLength
      <3>4. ends[next + 1] \in Nat /\ ends[next] \in Nat
        BY <3>1, <3>2, EndsTyped
      <3> QED
        BY <3>3, <3>4 DEF next
    <2>9. Transit(stream, ends)'
      <3>1. n + 1 < Len(asked) => ends[n + 1 + 1] \in Nat
        <4> DEFINE sent == asked
                   next == n + 1 + 1
        <4> HAVE n + 1 < Len(asked)
        <4>1. sent \in Seq(Commands) /\ next \in 0..Len(sent)
          BY <1>2, Types
        <4>2. Traffic(stream, ends, sent)
          BY <2>5
        <4> HIDE DEF sent, next
        <4>3. ends[next] \in Nat
          BY <4>1, <4>2, EndsTyped
        <4> QED
          BY <4>3 DEF next
      <3>2. n + 1 < Len(asked) => Len(buffer') <= ends[n + 1 + 1] - ends[n + 1]
        <4>1. Len(buffer') = 0
          BY <1>5
        <4> QED
          BY <2>6, <2>8, <3>1, <4>1
      <3>3. asked' = asked /\ Len(dispatched') = n + 1
        BY <2>2
      <3> HIDE DEF n
      <3> QED
        BY <2>5, <2>7, <2>8, <3>2, <3>3 DEF Transit
    <2> QED
      BY <1>3, <2>1, <2>3, <2>9 DEF InTransit
  <1> QED
    BY <1>1, <1>4, <1>5, ParseOfLink

LEMMA StepLinkInv == LinkInv /\ [LinkNext]_linkVars => LinkInv'
  <1> SUFFICES ASSUME LinkInv, [LinkNext]_linkVars
               PROVE  LinkInv'
    OBVIOUS
  <1>1. IngressInv' /\ CallsInv'
    BY StepGateOfLink
  <1>2. CASE Ask
    BY <1>1, <1>2, AskKeeps DEF LinkInv
  <1>3. CASE Carry
    BY <1>1, <1>3, CarryKeeps DEF LinkInv
  <1>4. CASE LinkStep /\ IngressRead
    BY <1>1, <1>4, ReadKeeps DEF LinkInv, LinkStep
  <1>5. CASE LinkStep /\ IngressParse
    BY <1>1, <1>5, ParseKeeps DEF LinkInv, LinkStep
  <1>6. CASE UNCHANGED linkVars
    <2>1. UNCHANGED <<buffer, stats, input, pc, ingress, dispatched, asked, line>>
      BY <1>6 DEF linkVars, ingressVars, vars
    <2> QED
      BY <1>1, <2>1 DEF LinkInv, LinkTyped, InOrder, UndamagedBooks, InTransit, Transit,
                        Waiting
  <1> QED
    BY <1>2, <1>3, <1>4, <1>5, <1>6 DEF LinkNext, LinkStep

LEMMA InitLinkInv == LinkInit => LinkInv
  <1> SUFFICES ASSUME LinkInit
               PROVE  LinkInv
    OBVIOUS
  <1>1. /\ IngressInit /\ asked = <<>> /\ line = <<>>
        /\ dispatched = <<>> /\ buffer = <<>> /\ input = <<>> /\ pc = "idle"
        /\ stats = [c \in Counters |-> 0] /\ ingress = [c \in IngressCounters |-> 0]
    BY DEF LinkInit, IngressInit, Init
  <1>2. IngressInv
    BY <1>1, InitIngressInv
  <1>3. CallsInv
    BY <1>1, <1>2, EmptySeq DEF IngressInv, CallsInv
  <1>4. LinkTyped /\ InOrder
    BY <1>1, EmptySeq DEF LinkTyped, InOrder
  <1>5. UndamagedBooks
    BY <1>1 DEF UndamagedBooks, Counters, IngressCounters
  <1>6. Transit(<<>>, [k \in 0..0 |-> 0])
    <2>1. Waiting = <<>>
      BY <1>1 DEF Waiting
    <2>2. IsRest(<<>>, <<>>, 0)
      BY EmptySeq DEF IsRest
    <2> QED
      BY <1>1, <2>1, <2>2, TrafficStarts DEF Transit
  <1> QED
    BY <1>2, <1>3, <1>4, <1>5, <1>6 DEF LinkInv, InTransit

\* Undamaged traffic leaves no trace in any error counter of any layer, for every
\* geometry, every CRC and every way of cutting the stream into feed calls.
THEOREM NoFalseAlarm == LinkSpec => []UndamagedBooks
  <1>1. LinkInv => UndamagedBooks
    BY DEF LinkInv
  <1> QED
    BY InitLinkInv, StepLinkInv, <1>1, PTL DEF LinkSpec

\* A command does not wait for the one after it: once its bytes are fed and the
\* call has returned, it has been handed over.
THEOREM HandedOverAtOnce == LinkSpec => []NoneWaiting
  <1>1. LinkInv => NoneWaiting
    <2> SUFFICES ASSUME LinkInv, pc = "idle", line = <<>>
                 PROVE  Len(dispatched) = Len(asked)
      BY DEF NoneWaiting
    <2>1. PICK stream, ends : Transit(stream, ends)
      BY DEF LinkInv, InTransit
    <2>2. input = <<>> /\ buffer \in Seq(Byte) /\ Waiting = buffer
      BY Types, ConcatEmptySeq DEF LinkInv, LinkTyped, Waiting
    <2>3. SUFFICES ASSUME Len(dispatched) < Len(asked)
                   PROVE  FALSE
      BY Types
    <2> DEFINE n == Len(dispatched)
               sent == asked
               w == Waiting
    <2>4. /\ sent \in Seq(Commands) /\ n \in 0..Len(sent) /\ n < Len(sent)
          /\ Traffic(stream, ends, sent) /\ IsRest(w, stream, ends[n])
      BY <2>1, <2>3, Types DEF Transit
    <2>5. Len(w) < ends[n + 1] - ends[n] /\ Len(w) \in Nat
      BY <2>1, <2>2, <2>3, Types DEF Transit
    <2> HIDE DEF n, sent, w
    <2>6. PICK f \in FramesOf(sent[n + 1]) :
            /\ sent[n + 1] \in Commands
            /\ ends[n + 1] = ends[n] + Len(f) /\ Len(f) <= Len(w)
      BY <2>4, RestBegins DEF BeginsWith
    <2>7. Len(f) \in Nat /\ ends[n] \in Nat
      BY <2>4, <2>6, FrameOfCommand, EndsTyped
    <2> QED
      BY <2>5, <2>6, <2>7
  <1> QED
    BY InitLinkInv, StepLinkInv, <1>1, PTL DEF LinkSpec

------------------------------------------------------------------------------
(***************************************************************************)
(* The link is a queue of messages.                                        *)
(***************************************************************************)
LEMMA HandedIs ==
  ASSUME LinkInv
  PROVE  /\ Handed \in Seq(Commands) /\ Len(Handed) = Len(dispatched)
         /\ \A i \in 1..Len(dispatched) : Handed[i] = asked[i]
  <1> DEFINE n == Len(dispatched)
  <1>1. /\ n \in Nat /\ DOMAIN dispatched = 1..n /\ n <= Len(asked)
        /\ asked \in Seq(Commands)
    BY Types, LenProperties
  <1>2. \A i \in 1..n : dispatched[i].message = asked[i] /\ asked[i] \in Commands
    BY <1>1, ElementOfSeq DEF LinkInv, InOrder
  <1>3. Handed = [i \in 1..n |-> dispatched[i].message]
    BY <1>1 DEF Handed
  <1> HIDE DEF n
  <1>4. Handed \in [1..n -> Commands] /\ \A i \in 1..n : Handed[i] = asked[i]
    BY <1>2, <1>3
  <1>5. Handed \in Seq(Commands) /\ Len(Handed) = n
    BY <1>1, <1>4, SeqDef, LenProperties
  <1> QED
    BY <1>4, <1>5 DEF n

LEMMA StepQueue ==
  ASSUME LinkInv, LinkInv', [LinkNext]_linkVars
  PROVE  [Queue!QueueNext]_Queue!queue
  <1>1. ASSUME UNCHANGED dispatched
        PROVE  Handed' = Handed
    BY <1>1 DEF Handed
  <1>2. CASE Ask
    <2>1. \E message \in Commands : asked' = Append(asked, message)
      BY <1>2 DEF Ask
    <2>2. Handed' = Handed
      BY <1>1, <1>2 DEF Ask, ingressVars
    <2> QED
      BY <2>1, <2>2 DEF Queue!QueueNext, Queue!Give
  <1>3. CASE Carry
    <2>1. asked' = asked /\ Handed' = Handed
      BY <1>1, <1>3 DEF Carry, IngressFeed
    <2> QED
      BY <2>1 DEF Queue!queue
  <1>4. CASE LinkStep /\ IngressRead
    <2>1. asked' = asked /\ Handed' = Handed
      BY <1>1, <1>4 DEF LinkStep, IngressRead
    <2> QED
      BY <2>1 DEF Queue!queue
  <1>5. CASE LinkStep /\ IngressParse
    <2>1. PICK stream, ends : Transit(stream, ends)
      BY DEF LinkInv, InTransit
    <2> DEFINE n == Len(dispatched)
    <2>2. /\ asked' = asked /\ n < Len(asked) /\ n \in Nat
          /\ \/ dispatched' = dispatched
             \/ dispatched' = Append(dispatched,
                   [frame |-> Candidate, message |-> asked[n + 1]])
      BY <1>5, <2>1, ParseOfLink, Types DEF LinkStep
    <2>3. CASE dispatched' = dispatched
      BY <1>1, <2>2, <2>3 DEF Queue!queue
    <2>4. CASE dispatched' = Append(dispatched,
                 [frame |-> Candidate, message |-> asked[n + 1]])
      <3>1. Len(dispatched') = n + 1
        BY <2>4, Types, AppendProperties
      <3>2. /\ Handed \in Seq(Commands) /\ Len(Handed) = n
            /\ \A i \in 1..n : Handed[i] = asked[i]
        BY HandedIs
      <3>3. (LinkInv => /\ Handed \in Seq(Commands) /\ Len(Handed) = Len(dispatched)
                        /\ \A i \in 1..Len(dispatched) : Handed[i] = asked[i])'
        BY HandedIs, PTL
      <3>4. /\ Handed' \in Seq(Commands) /\ Len(Handed') = n + 1
            /\ \A i \in 1..(n + 1) : Handed'[i] = asked[i]
        BY <2>2, <3>1, <3>3
      <3>5. Handed' = Append(Handed, asked[n + 1])
        <4> DEFINE before == Handed
                   after == Handed'
                   sent == asked
        <4>1. /\ before \in Seq(Commands) /\ Len(before) = n
              /\ after \in Seq(Commands) /\ Len(after) = n + 1
              /\ \A i \in 1..n : before[i] = sent[i]
              /\ \A i \in 1..(n + 1) : after[i] = sent[i]
          BY <3>2, <3>4
        <4>2. sent[n + 1] \in Commands /\ n \in Nat
          BY <2>2, Types, ElementOfSeq
        <4> HIDE DEF before, after, sent, n
        <4>3. /\ Append(before, sent[n + 1]) \in Seq(Commands)
              /\ Len(Append(before, sent[n + 1])) = n + 1
              /\ \A i \in 1..(n + 1) : Append(before, sent[n + 1])[i] = sent[i]
          BY <4>1, <4>2, AppendProperties
        <4>4. after = Append(before, sent[n + 1])
          BY <4>1, <4>3, SeqEqual
        <4> QED
          BY <4>4 DEF before, after, sent
      <3> QED
        BY <2>2, <3>2, <3>5 DEF Queue!QueueNext, Queue!Take
    <2> QED
      BY <2>2, <2>3, <2>4
  <1>6. CASE UNCHANGED linkVars
    BY <1>1, <1>6 DEF linkVars, ingressVars, Queue!queue
  <1> QED
    BY <1>2, <1>3, <1>4, <1>5, <1>6 DEF LinkNext, LinkStep

\* Encoder, framing, decoder and gate implement a queue of messages: what the
\* consumer is called with is what was asked for, in its order and once each, for
\* every geometry, every CRC and every way of cutting the stream.
THEOREM LinkIsQueue == LinkSpec => ImplementsQueue
  <1>1. LinkInit => Queue!QueueInit
    BY DEF LinkInit, IngressInit, Handed, Queue!QueueInit
  <1>2. LinkInv /\ LinkInv' /\ [LinkNext]_linkVars => [Queue!QueueNext]_Queue!queue
    BY StepQueue
  <1> QED
    BY InitLinkInv, StepLinkInv, <1>1, <1>2, PTL
       DEF LinkSpec, ImplementsQueue, Queue!QueueSpec

------------------------------------------------------------------------------
(***************************************************************************)
(* The account of a line that may bring anything.  The invariant divides   *)
(* the line between what has left the buffer and what is in it, says of    *)
(* each byte thrown away that no frame can begin there, and gives each     *)
(* delivered frame its stretch.                                            *)
(***************************************************************************)
\* No frame can stand in h from position p on, whatever comes after h: each
\* frame the decoder would accept differs from h in a byte that is already there.
NoFrameFrom(h, p) ==
  \A f \in Seq(Byte) : DecodeResult(f) = "OK" =>
    \E j \in 1..Len(f) : p + j - 1 <= Len(h) /\ h[p + j - 1] # f[j]

\* What is on the line has left the buffer or is in it.
Divided(h, fa, b) ==
  /\ h \in Seq(Byte) /\ b \in Seq(Byte) /\ fa \in Seq(Int)
  /\ Len(h) = Len(fa) + Len(b)
  /\ \A i \in 1..Len(b) : b[i] = h[Len(fa) + i]

NoiseIsHopeless(h, fa) ==
  \A p \in 1..Len(fa) : fa[p] = Noise => NoFrameFrom(h, p)

\* The frame f is the stretch of h whose bytes left as the n-th.
StandsAt(h, fa, n, f, p) ==
  /\ p \in Nat \ {0} /\ p + Len(f) - 1 <= Len(fa)
  /\ \A q \in 1..Len(fa) : fa[q] = n <=> q \in p..(p + Len(f) - 1)
  /\ \A i \in 1..Len(f) : f[i] = h[p + i - 1]

FramesStand(h, fa, d) ==
  /\ d \in Seq(Seq(Byte))
  /\ \A n \in 1..Len(d) : DecodeResult(d[n]) = "OK" /\ \E p : StandsAt(h, fa, n, d[n], p)

\* Frames are numbered as their bytes come.
FatesInOrder(fa, d) ==
  /\ \A q \in 1..Len(fa) : fa[q] \in GivenUp..Len(d)
  /\ \A p, q \in 1..Len(fa) : p < q /\ fa[p] > 0 /\ fa[q] > 0 => fa[p] <= fa[q]

\* h has been taken in, fa tells of what left, b is held, d was delivered.
Received(h, fa, b, d) ==
  /\ Divided(h, fa, b)
  /\ NoiseIsHopeless(h, fa)
  /\ FramesStand(h, fa, d)
  /\ FatesInOrder(fa, d)

------------------------------------------------------------------------------
(***************************************************************************)
(* The three things that happen to a byte.                                 *)
(***************************************************************************)
LEMMA StillHopeless ==
  ASSUME NEW h \in Seq(Byte), NEW x \in Byte, NEW p \in Nat \ {0}, NoFrameFrom(h, p)
  PROVE  NoFrameFrom(Append(h, x), p)
  <1>1. /\ Len(h) \in Nat /\ Len(Append(h, x)) = Len(h) + 1
        /\ \A i \in 1..Len(h) : Append(h, x)[i] = h[i]
    BY LenProperties, AppendProperties
  <1> DEFINE more == Append(h, x)
  <1> HIDE DEF more
  <1>2. Len(more) = Len(h) + 1 /\ \A i \in 1..Len(h) : more[i] = h[i]
    BY <1>1 DEF more
  <1>3. ASSUME NEW f \in Seq(Byte), DecodeResult(f) = "OK"
        PROVE  \E j \in 1..Len(f) : p + j - 1 <= Len(more) /\ more[p + j - 1] # f[j]
    <2>1. PICK j \in 1..Len(f) : p + j - 1 <= Len(h) /\ h[p + j - 1] # f[j]
      BY <1>3 DEF NoFrameFrom
    <2>2. Len(f) \in Nat
      BY LenProperties
    <2>3. p + j - 1 \in 1..Len(h) /\ p + j - 1 <= Len(more)
      BY <1>1, <1>2, <2>1, <2>2
    <2>4. more[p + j - 1] = h[p + j - 1]
      BY <1>2, <2>3
    <2> QED
      BY <2>1, <2>3, <2>4
  <1> QED
    BY <1>3 DEF NoFrameFrom, more

LEMMA ByteTaken ==
  ASSUME NEW h, NEW fa, NEW b, NEW d, Received(h, fa, b, d), NEW x \in Byte
  PROVE  Received(Append(h, x), fa, Append(b, x), d)
  <1> DEFINE more == Append(h, x)
             held == Append(b, x)
  <1>1. /\ h \in Seq(Byte) /\ b \in Seq(Byte) /\ fa \in Seq(Int) /\ d \in Seq(Seq(Byte))
        /\ Len(h) \in Nat /\ Len(b) \in Nat /\ Len(fa) \in Nat
        /\ Len(h) = Len(fa) + Len(b)
        /\ \A i \in 1..Len(b) : b[i] = h[Len(fa) + i]
    BY LenProperties DEF Received, Divided, FramesStand
  <1>2. /\ more \in Seq(Byte) /\ Len(more) = Len(h) + 1
        /\ \A i \in 1..Len(h) : more[i] = h[i]
        /\ more[Len(h) + 1] = x
    BY <1>1, AppendProperties
  <1>3. /\ held \in Seq(Byte) /\ Len(held) = Len(b) + 1
        /\ \A i \in 1..Len(b) : held[i] = b[i]
        /\ held[Len(b) + 1] = x
    BY <1>1, AppendProperties
  <1>4. NoiseIsHopeless(more, fa)
    <2> SUFFICES ASSUME NEW p \in 1..Len(fa), fa[p] = Noise
                 PROVE  NoFrameFrom(more, p)
      BY DEF NoiseIsHopeless
    <2>1. NoFrameFrom(h, p) /\ p \in Nat \ {0}
      BY <1>1 DEF Received, NoiseIsHopeless
    <2> QED
      BY <1>1, <2>1, StillHopeless
  <1> HIDE DEF more, held
  <1>5. Divided(more, fa, held)
    <2>1. ASSUME NEW i \in 1..Len(held)
          PROVE  held[i] = more[Len(fa) + i]
      <3>1. CASE i \in 1..Len(b)
        <4>1. Len(fa) + i \in 1..Len(h)
          BY <1>1, <3>1
        <4> QED
          BY <1>1, <1>2, <1>3, <3>1, <4>1
      <3>2. CASE i = Len(b) + 1
        <4>1. Len(fa) + i = Len(h) + 1
          BY <1>1, <3>2
        <4> QED
          BY <1>2, <1>3, <3>2, <4>1
      <3> QED
        BY <1>1, <1>3, <3>1, <3>2
    <2> QED
      BY <1>1, <1>2, <1>3, <2>1 DEF Divided
  <1>6. FramesStand(more, fa, d)
    <2> SUFFICES ASSUME NEW n \in 1..Len(d)
                 PROVE  \E p : StandsAt(more, fa, n, d[n], p)
      BY <1>1 DEF FramesStand, Received
    <2>1. PICK p : StandsAt(h, fa, n, d[n], p)
      BY DEF Received, FramesStand
    <2>2. Len(d[n]) \in Nat
      BY <1>1, ElementOfSeq, LenProperties
    <2>3. \A i \in 1..Len(d[n]) : p + i - 1 \in 1..Len(h)
      BY <1>1, <2>1, <2>2 DEF StandsAt
    <2>4. \A i \in 1..Len(d[n]) : d[n][i] = more[p + i - 1]
      BY <1>2, <2>1, <2>3 DEF StandsAt
    <2>5. StandsAt(more, fa, n, d[n], p)
      BY <2>1, <2>4 DEF StandsAt
    <2> QED
      BY <2>5
  <1> QED
    BY <1>4, <1>5, <1>6 DEF Received, more, held

\* The fates, and the buffer, when the first k bytes of b have left.
Marked(fa, k, how) == fa \o [i \in 1..k |-> how]

Rest(b, k) == SubSeq(b, k + 1, Len(b))

\* What is left of the line when the first k bytes have left the buffer.
LEMMA LeavingDivides ==
  ASSUME NEW h, NEW fa, NEW b, Divided(h, fa, b),
         NEW k \in 0..Len(b), NEW how \in Int
  PROVE  /\ Divided(h, Marked(fa, k, how), Rest(b, k))
         /\ Len(Marked(fa, k, how)) = Len(fa) + k
         /\ \A q \in 1..Len(fa) : Marked(fa, k, how)[q] = fa[q]
         /\ \A q \in (Len(fa) + 1)..(Len(fa) + k) : Marked(fa, k, how)[q] = how
  <1> DEFINE part == [i \in 1..k |-> how]
             later == Marked(fa, k, how)
             rest == Rest(b, k)
  <1>later. later = fa \o part
    BY DEF Marked
  <1>rest. rest = SubSeq(b, k + 1, Len(b))
    BY DEF Rest
  <1> HIDE DEF later, rest
  <1>1. /\ h \in Seq(Byte) /\ b \in Seq(Byte) /\ fa \in Seq(Int)
        /\ Len(h) \in Nat /\ Len(b) \in Nat /\ Len(fa) \in Nat /\ k \in Nat /\ k <= Len(b)
        /\ Len(h) = Len(fa) + Len(b)
        /\ \A i \in 1..Len(b) : b[i] = h[Len(fa) + i]
    BY LenProperties DEF Divided
  <1>2. part \in Seq(Int) /\ Len(part) = k /\ \A i \in 1..k : part[i] = how
    <2>1. part \in [1..k -> Int]
      OBVIOUS
    <2> QED
      BY <1>1, <2>1, SeqDef
  <1> HIDE DEF part
  <1>3. later \in Seq(Int) /\ Len(later) = Len(fa) + k
    BY <1>1, <1>2, <1>later, JoinedLength
  <1>4. \A q \in 1..Len(fa) : later[q] = fa[q]
    BY <1>1, <1>2, <1>later, LeftPart
  <1>5. ASSUME NEW q \in (Len(fa) + 1)..(Len(fa) + k)
        PROVE  later[q] = how
    <2>1. PICK i \in 1..k : q = Len(fa) + i
      <3>1. q - Len(fa) \in 1..k /\ q = Len(fa) + (q - Len(fa))
        BY <1>1
      <3> QED
        BY <3>1
    <2>2. later[q] = part[i]
      BY <1>1, <1>2, <1>later, <2>1, RightPart
    <2> QED
      BY <1>2, <2>2
  <1>6. rest \in Seq(Byte) /\ Len(rest) = Len(b) - k
    BY <1>1, <1>rest, DropPrefix
  <1>7. \A i \in 1..(Len(b) - k) : rest[i] = b[k + i]
    <2>1. \A i \in (k + 1)..Len(b) : b[i] \in Byte
      BY <1>1, ElementOfSeq
    <2>2. \A i \in 1..(Len(b) - (k + 1) + 1) : rest[i] = b[(k + 1) + i - 1]
      BY <1>1, <1>rest, <2>1, SubSeqProperties
    <2>3. /\ Len(b) - (k + 1) + 1 = Len(b) - k
          /\ \A i \in 1..(Len(b) - k) : (k + 1) + i - 1 = k + i
      BY <1>1
    <2> QED
      BY <2>2, <2>3
  <1>8. \A i \in 1..Len(rest) : rest[i] = h[Len(later) + i]
    <2> SUFFICES ASSUME NEW i \in 1..Len(rest)
                 PROVE  rest[i] = h[Len(later) + i]
      OBVIOUS
    <2>1. k + i \in 1..Len(b) /\ Len(fa) + (k + i) = Len(later) + i
      BY <1>1, <1>3, <1>6
    <2>2. rest[i] = b[k + i]
      BY <1>6, <1>7
    <2> QED
      BY <1>1, <2>1, <2>2
  <1>9. Len(h) = Len(later) + Len(rest)
    BY <1>1, <1>3, <1>6
  <1> QED
    BY <1>1, <1>3, <1>4, <1>5, <1>6, <1>8, <1>9 DEF Divided, later, rest

\* A byte number of the line is one of the first that left, or left just now.
LEMMA OldOrNew ==
  ASSUME NEW m \in Nat, NEW k \in Nat, NEW q \in 1..(m + k)
  PROVE  q \in 1..m \/ q \in (m + 1)..(m + k)
  OBVIOUS

\* Bytes thrown away or given up: d stays.
LEMMA BytesGone ==
  ASSUME NEW h, NEW fa, NEW b, NEW d, Received(h, fa, b, d),
         NEW k \in 0..Len(b), NEW how \in {Noise, GivenUp},
         how = Noise => \A i \in 1..k : NoFrameFrom(h, Len(fa) + i)
  PROVE  Received(h, Marked(fa, k, how), Rest(b, k), d)
  <1> DEFINE later == Marked(fa, k, how)
             rest == Rest(b, k)
  <1>1. /\ d \in Seq(Seq(Byte)) /\ Len(d) \in Nat /\ how \in Int /\ how <= 0 /\ how >= GivenUp
        /\ Len(fa) \in Nat /\ k \in Nat /\ how <= Len(d)
        /\ h \in Seq(Byte)
    BY LenProperties DEF Received, Divided, FramesStand, Noise, GivenUp
  <1>2. /\ Divided(h, later, rest)
        /\ Len(later) = Len(fa) + k
        /\ \A q \in 1..Len(fa) : later[q] = fa[q]
        /\ \A q \in (Len(fa) + 1)..(Len(fa) + k) : later[q] = how
    <2>1. Divided(h, fa, b)
      BY DEF Received
    <2> QED
      BY <1>1, <2>1, LeavingDivides
  <1> HIDE DEF later, rest
  <1>3. \A q \in 1..Len(later) : q \in 1..Len(fa) \/ q \in (Len(fa) + 1)..(Len(fa) + k)
    BY <1>1, <1>2, OldOrNew
  <1>4. \A q \in 1..Len(fa) : q \in 1..Len(later)
    BY <1>1, <1>2
  <1>5. NoiseIsHopeless(h, later)
    <2> SUFFICES ASSUME NEW p \in 1..Len(later), later[p] = Noise
                 PROVE  NoFrameFrom(h, p)
      BY DEF NoiseIsHopeless
    <2>1. CASE p \in 1..Len(fa)
      BY <1>2, <2>1 DEF Received, NoiseIsHopeless
    <2>2. CASE p \in (Len(fa) + 1)..(Len(fa) + k)
      <3>1. how = Noise /\ p - Len(fa) \in 1..k /\ Len(fa) + (p - Len(fa)) = p
        BY <1>1, <1>2, <2>2
      <3>2. NoFrameFrom(h, Len(fa) + (p - Len(fa)))
        BY <3>1
      <3> QED
        BY <3>1, <3>2
    <2> QED
      BY <1>3, <2>1, <2>2
  <1>6. FramesStand(h, later, d)
    <2> SUFFICES ASSUME NEW n \in 1..Len(d)
                 PROVE  \E p : StandsAt(h, later, n, d[n], p)
      BY <1>1 DEF Received, FramesStand
    <2>1. PICK p : StandsAt(h, fa, n, d[n], p)
      BY DEF Received, FramesStand
    <2>2. Len(d[n]) \in Nat /\ n > 0 /\ n \in Nat
      BY <1>1, ElementOfSeq, LenProperties
    <2>3. p \in Nat \ {0} /\ p + Len(d[n]) - 1 <= Len(fa) /\ p + Len(d[n]) - 1 <= Len(later)
      BY <1>1, <1>2, <2>1, <2>2 DEF StandsAt
    <2>4. \A q \in 1..Len(later) : later[q] = n <=> q \in p..(p + Len(d[n]) - 1)
      <3> SUFFICES ASSUME NEW q \in 1..Len(later)
                   PROVE  later[q] = n <=> q \in p..(p + Len(d[n]) - 1)
        OBVIOUS
      <3>1. CASE q \in 1..Len(fa)
        BY <1>2, <2>1, <3>1 DEF StandsAt
      <3>2. CASE q \in (Len(fa) + 1)..(Len(fa) + k)
        <4>1. later[q] # n
          BY <1>1, <1>2, <2>2, <3>2
        <4>2. q \notin p..(p + Len(d[n]) - 1)
          <5>1. Len(fa) \in Nat
            BY <1>1
          <5> QED
            BY <5>1, <2>2, <2>3, <3>2
        <4> QED
          BY <4>1, <4>2
      <3> QED
        BY <1>3, <3>1, <3>2
    <2>5. StandsAt(h, later, n, d[n], p)
      BY <2>1, <2>3, <2>4 DEF StandsAt
    <2> QED
      BY <2>5
  <1>7. FatesInOrder(later, d)
    <2>1. \A q \in 1..Len(fa) : fa[q] \in GivenUp..Len(d)
      BY DEF Received, FatesInOrder
    <2>2. \A q \in 1..Len(later) : later[q] \in GivenUp..Len(d)
      <3> SUFFICES ASSUME NEW q \in 1..Len(later)
                   PROVE  later[q] \in GivenUp..Len(d)
        OBVIOUS
      <3>1. how \in GivenUp..Len(d)
        BY <1>1 DEF GivenUp
      <3> QED
        BY <1>2, <1>3, <2>1, <3>1
    <2>3. ASSUME NEW p \in 1..Len(later), NEW q \in 1..Len(later), p < q,
                 later[p] > 0, later[q] > 0
          PROVE  later[p] <= later[q]
      <3>1. p \in 1..Len(fa) /\ q \in 1..Len(fa)
        BY <1>1, <1>2, <1>3, <2>3
      <3>2. later[p] = fa[p] /\ later[q] = fa[q]
        BY <1>2, <3>1
      <3> QED
        BY <2>3, <3>1, <3>2 DEF Received, FatesInOrder
    <2> QED
      BY <2>2, <2>3 DEF FatesInOrder
  <1> QED
    BY <1>2, <1>5, <1>6, <1>7 DEF Received, later, rest

\* The first k bytes leave as the next frame.
LEMMA FrameGone ==
  ASSUME NEW h, NEW fa, NEW b, NEW d, Received(h, fa, b, d),
         NEW k \in 1..Len(b), DecodeResult(SubSeq(b, 1, k)) = "OK"
  PROVE  LET more == Append(d, SubSeq(b, 1, k))
         IN  Received(h, Marked(fa, k, Len(more)), Rest(b, k), more)
  <1> DEFINE frame == SubSeq(b, 1, k)
             more == Append(d, frame)
             how == Len(d) + 1
             later == Marked(fa, k, how)
             rest == Rest(b, k)
  <1>1. /\ d \in Seq(Seq(Byte)) /\ Len(d) \in Nat /\ how \in Int /\ how > 0
        /\ fa \in Seq(Int) /\ b \in Seq(Byte)
        /\ Len(fa) \in Nat /\ Len(b) \in Nat /\ k \in Nat /\ k >= 1 /\ k \in 0..Len(b)
        /\ h \in Seq(Byte)
        /\ \A i \in 1..Len(b) : b[i] = h[Len(fa) + i]
    BY LenProperties DEF Received, Divided, FramesStand
  <1>2. /\ frame \in Seq(Byte) /\ Len(frame) = k
        /\ \A i \in 1..k : frame[i] = b[i]
    <2>1. \A i \in 1..k : b[i] \in Byte
      BY <1>1, ElementOfSeq
    <2>2. /\ frame \in Seq(Byte) /\ Len(frame) = k - 1 + 1
          /\ \A i \in 1..(k - 1 + 1) : frame[i] = b[1 + i - 1]
      BY <1>1, <2>1, SubSeqProperties
    <2> HIDE DEF frame
    <2>3. k - 1 + 1 = k /\ \A i \in 1..k : 1 + i - 1 = i
      BY <1>1
    <2> QED
      BY <2>2, <2>3
  <1>3. /\ Divided(h, later, rest)
        /\ Len(later) = Len(fa) + k
        /\ \A q \in 1..Len(fa) : later[q] = fa[q]
        /\ \A q \in (Len(fa) + 1)..(Len(fa) + k) : later[q] = how
    <2>1. Divided(h, fa, b)
      BY DEF Received
    <2> HIDE DEF how
    <2> QED
      BY <1>1, <2>1, LeavingDivides
  <1>ok. DecodeResult(frame) = "OK"
    OBVIOUS
  <1> HIDE DEF frame
  <1>4. /\ more \in Seq(Seq(Byte)) /\ Len(more) = how
        /\ \A n \in 1..Len(d) : more[n] = d[n]
        /\ more[how] = frame
    BY <1>1, <1>2, AppendProperties
  <1> HIDE DEF later, rest, more
  <1>5. \A q \in 1..Len(later) : q \in 1..Len(fa) \/ q \in (Len(fa) + 1)..(Len(fa) + k)
    BY <1>1, <1>3, OldOrNew
  <1>6. \A q \in 1..Len(fa) : q \in 1..Len(later) /\ fa[q] \in GivenUp..Len(d)
    BY <1>1, <1>3 DEF Received, FatesInOrder
  <1>7. NoiseIsHopeless(h, later)
    <2> SUFFICES ASSUME NEW p \in 1..Len(later), later[p] = Noise
                 PROVE  NoFrameFrom(h, p)
      BY DEF NoiseIsHopeless
    <2>1. p \in 1..Len(fa)
      BY <1>1, <1>3, <1>5 DEF Noise
    <2> QED
      BY <1>3, <2>1 DEF Received, NoiseIsHopeless
  <1>8. StandsAt(h, later, how, frame, Len(fa) + 1)
    <2>1. \A q \in 1..Len(later) :
            later[q] = how <=> q \in (Len(fa) + 1)..(Len(fa) + 1 + Len(frame) - 1)
      <3> SUFFICES ASSUME NEW q \in 1..Len(later)
                   PROVE  later[q] = how <=> q \in (Len(fa) + 1)..(Len(fa) + k)
        BY <1>1, <1>2
      <3>1. CASE q \in 1..Len(fa)
        <4>1. later[q] # how
          <5>1. later[q] \in GivenUp..Len(d)
            BY <1>3, <1>6, <3>1
          <5> QED
            BY <1>1, <5>1
        <4>2. q \notin (Len(fa) + 1)..(Len(fa) + k)
          BY <1>1, <3>1
        <4> QED
          BY <4>1, <4>2
      <3>2. CASE q \in (Len(fa) + 1)..(Len(fa) + k)
        BY <1>3, <3>2
      <3> QED
        BY <1>5, <3>1, <3>2
    <2>2. \A i \in 1..Len(frame) : frame[i] = h[Len(fa) + 1 + i - 1]
      <3>1. \A i \in 1..k : i \in 1..Len(b) /\ Len(fa) + 1 + i - 1 = Len(fa) + i
        BY <1>1
      <3> QED
        BY <1>1, <1>2, <3>1
    <2>3. Len(fa) + 1 \in Nat \ {0} /\ Len(fa) + 1 + Len(frame) - 1 <= Len(later)
      BY <1>1, <1>2, <1>3
    <2> QED
      BY <2>1, <2>2, <2>3 DEF StandsAt
  <1>9. FramesStand(h, later, more)
    <2> SUFFICES ASSUME NEW n \in 1..Len(more)
                 PROVE  DecodeResult(more[n]) = "OK" /\ \E p : StandsAt(h, later, n, more[n], p)
      BY <1>4 DEF FramesStand
    <2>1. CASE n = how
      BY <1>4, <1>8, <1>ok, <2>1
    <2>2. CASE n \in 1..Len(d)
      <3>1. DecodeResult(d[n]) = "OK" /\ more[n] = d[n]
        BY <1>4, <2>2 DEF Received, FramesStand
      <3>2. PICK p : StandsAt(h, fa, n, d[n], p)
        BY <2>2 DEF Received, FramesStand
      <3>3. Len(d[n]) \in Nat /\ n # how
        BY <1>1, <2>2, ElementOfSeq, LenProperties
      <3>4. p \in Nat \ {0} /\ p + Len(d[n]) - 1 <= Len(fa) /\ p + Len(d[n]) - 1 <= Len(later)
        BY <1>1, <1>3, <3>2, <3>3 DEF StandsAt
      <3>5. \A q \in 1..Len(later) : later[q] = n <=> q \in p..(p + Len(d[n]) - 1)
        <4> SUFFICES ASSUME NEW q \in 1..Len(later)
                     PROVE  later[q] = n <=> q \in p..(p + Len(d[n]) - 1)
          OBVIOUS
        <4>1. CASE q \in 1..Len(fa)
          BY <1>3, <3>2, <4>1 DEF StandsAt
        <4>2. CASE q \in (Len(fa) + 1)..(Len(fa) + k)
          <5>1. later[q] # n
            BY <1>3, <3>3, <4>2
          <5>2. q \notin p..(p + Len(d[n]) - 1)
            BY <1>1, <3>3, <3>4, <4>2
          <5> QED
            BY <5>1, <5>2
        <4> QED
          BY <1>5, <4>1, <4>2
      <3>6. StandsAt(h, later, n, d[n], p)
        BY <3>2, <3>4, <3>5 DEF StandsAt
      <3> QED
        BY <3>1, <3>6
    <2> QED
      BY <1>1, <1>4, <2>1, <2>2
  <1>10. FatesInOrder(later, more)
    <2>1. \A q \in 1..Len(later) : later[q] \in GivenUp..Len(more)
      <3> SUFFICES ASSUME NEW q \in 1..Len(later)
                   PROVE  later[q] \in GivenUp..Len(more)
        OBVIOUS
      <3>1. CASE q \in 1..Len(fa)
        <4>1. later[q] \in GivenUp..Len(d)
          BY <1>3, <1>6, <3>1
        <4>2. Len(more) = Len(d) + 1
          BY <1>4
        <4> QED
          BY <1>1, <4>1, <4>2 DEF GivenUp
      <3>2. CASE q \in (Len(fa) + 1)..(Len(fa) + k)
        <4>1. later[q] = Len(d) + 1 /\ Len(more) = Len(d) + 1
          BY <1>3, <1>4, <3>2
        <4> QED
          BY <1>1, <4>1 DEF GivenUp
      <3> QED
        BY <1>5, <3>1, <3>2
    <2>2. ASSUME NEW p \in 1..Len(later), NEW q \in 1..Len(later), p < q,
                 later[p] > 0, later[q] > 0
          PROVE  later[p] <= later[q]
      <3>1. CASE q \in 1..Len(fa)
        <4>1. p \in 1..Len(fa)
          BY <1>1, <1>3, <2>2, <3>1
        <4>2. later[p] = fa[p] /\ later[q] = fa[q]
          BY <1>3, <3>1, <4>1
        <4> QED
          BY <2>2, <3>1, <4>1, <4>2 DEF Received, FatesInOrder
      <3>2. CASE q \in (Len(fa) + 1)..(Len(fa) + k)
        BY <1>3, <1>4, <2>1, <3>2
      <3> QED
        BY <1>5, <3>1, <3>2
    <2> QED
      BY <2>1, <2>2 DEF FatesInOrder
  <1>11. Received(h, later, rest, more)
    BY <1>3, <1>7, <1>9, <1>10 DEF Received
  <1>12. Len(more) = how
    BY <1>4
  <1> QED
    BY <1>11, <1>12 DEF later, rest, more, frame

------------------------------------------------------------------------------
(***************************************************************************)
(* Where no frame can stand.                                               *)
(***************************************************************************)
\* Bytes that agree, as far as they go, with a frame the decoder accepts pass
\* every test of the parse loop, and make up that frame when they are enough.
LEMMA FrameStands ==
  ASSUME NEW b \in Seq(Byte), NEW f \in Seq(Byte), DecodeResult(f) = "OK",
         \A j \in 1..Len(f) : j <= Len(b) => b[j] = f[j]
  PROVE  /\ Len(b) >= 1 => b[1] = Magic0
         /\ Len(b) >= 2 => HasMagic(b)
         /\ Len(b) >= HeaderSize =>
              /\ b[3] = ProtocolVersion
              /\ PayloadLength(b) <= MaxPayload
              /\ FrameLength(b) = Len(f)
              /\ Len(b) >= FrameLength(b) => SubSeq(b, 1, FrameLength(b)) = f
  <1>1. /\ Len(b) \in Nat /\ Len(f) \in Nat
        /\ HeaderSize \in Nat /\ HeaderSize >= 5 /\ CrcSize \in Nat \ {0}
    BY LenProperties, WireAssumption
  <1>2. /\ Len(f) >= HeaderSize + CrcSize
        /\ f[1] = Magic0 /\ f[2] = Magic1 /\ f[3] = ProtocolVersion
        /\ PayloadLength(f) <= MaxPayload
        /\ Len(f) = FrameLength(f)
    <2>1. Len(f) >= HeaderSize + CrcSize
      BY AcceptedFits
    <2>2. PayloadLength(f) \in Nat /\ MaxPayload \in Nat
      BY <1>1, <2>1, FrameLengthBounds, WireAssumption
    <2>3. /\ HasMagic(f) /\ f[3] = ProtocolVersion
          /\ ~ (PayloadLength(f) > MaxPayload)
          /\ Len(f) = FrameLength(f)
      BY DEF DecodeResult
    <2> QED
      BY <2>1, <2>2, <2>3 DEF HasMagic
  <1>3. \A j \in 1..HeaderSize : j \in 1..Len(f) /\ (j <= Len(b) => b[j] = f[j])
    BY <1>1, <1>2
  <1>4. /\ 1 \in 1..HeaderSize /\ 2 \in 1..HeaderSize /\ 3 \in 1..HeaderSize
        /\ HeaderSize - 1 \in 1..HeaderSize /\ HeaderSize \in 1..HeaderSize
        /\ HeaderSize - 1 + 1 = HeaderSize
    BY <1>1
  <1>5. Len(b) >= 1 => b[1] = Magic0
    BY <1>1, <1>2, <1>3, <1>4
  <1>6. Len(b) >= 2 => HasMagic(b)
    BY <1>1, <1>2, <1>3, <1>4 DEF HasMagic
  <1>7. ASSUME Len(b) >= HeaderSize
        PROVE  /\ b[3] = ProtocolVersion
               /\ PayloadLength(b) <= MaxPayload
               /\ FrameLength(b) = Len(f)
    <2>1. \A j \in 1..HeaderSize : b[j] = f[j]
      BY <1>1, <1>3, <1>7
    <2>2. PayloadLength(b) = PayloadLength(f)
      BY <1>4, <2>1 DEF PayloadLength, ReadU16
    <2> QED
      BY <1>2, <1>4, <2>1, <2>2 DEF FrameLength
  <1>8. ASSUME Len(b) >= HeaderSize, Len(b) >= FrameLength(b)
        PROVE  SubSeq(b, 1, FrameLength(b)) = f
    <2> DEFINE n == Len(f)
               part == SubSeq(b, 1, n)
    <2>1. FrameLength(b) = n /\ n \in Nat /\ n >= 1 /\ n <= Len(b)
      BY <1>1, <1>2, <1>7, <1>8
    <2>2. \A j \in 1..n : b[j] \in Byte
      BY <1>1, <2>1, ElementOfSeq
    <2>3. /\ part \in Seq(Byte) /\ Len(part) = n - 1 + 1
          /\ \A j \in 1..(n - 1 + 1) : part[j] = b[1 + j - 1]
      BY <2>1, <2>2, SubSeqProperties
    <2>4. n - 1 + 1 = n /\ \A j \in 1..n : 1 + j - 1 = j /\ j <= Len(b)
      BY <2>1
    <2>5. \A j \in 1..n : b[j] = f[j]
      BY <2>4
    <2>6. SubSeq(b, 1, FrameLength(b)) = part
      BY <2>1
    <2> HIDE DEF part
    <2>7. part = f
      BY <2>3, <2>4, <2>5, SeqEqual
    <2> QED
      BY <2>6, <2>7
  <1> QED
    BY <1>5, <1>6, <1>7, <1>8

\* Two frames the decoder accepts at one place are the same.
LEMMA OneFrame ==
  ASSUME NEW e \in Seq(Byte), DecodeResult(e) = "OK",
         NEW f \in Seq(Byte), DecodeResult(f) = "OK",
         \A j \in 1..Len(f) : j <= Len(e) => e[j] = f[j]
  PROVE  e = f
  <1>1. Len(e) >= HeaderSize /\ Len(e) = FrameLength(e) /\ Len(e) \in Nat
    BY AcceptedFits, LenProperties, WireAssumption DEF DecodeResult
  <1>2. SubSeq(e, 1, Len(e)) = f
    BY <1>1, FrameStands
  <1> QED
    BY <1>2, SubSeqFull

\* The tests of the parse loop only refuse a head that no byte to come can make
\* into a frame.
LEMMA RejectedHead ==
  ASSUME TypeInv,
         DropStrayByte \/ RejectMagic \/ RejectVersion \/ RejectLength \/ RejectFrame
  PROVE  NoFrameFrom(buffer, 1)
  <1>1. /\ buffer \in Seq(Byte) /\ Len(buffer) \in Nat
        /\ HeaderSize \in Nat /\ HeaderSize >= 5 /\ MaxPayload \in Nat
    BY LenProperties, WireAssumption DEF TypeInv, TypeOK
  <1> SUFFICES ASSUME NEW f \in Seq(Byte), DecodeResult(f) = "OK",
                      \A j \in 1..Len(f) : ~(1 + j - 1 <= Len(buffer) /\ buffer[1 + j - 1] # f[j])
               PROVE  FALSE
    BY DEF NoFrameFrom
  <1>2. \A j \in 1..Len(f) : j <= Len(buffer) => buffer[j] = f[j]
    <2>1. \A j \in 1..Len(f) : 1 + j - 1 = j
      BY LenProperties
    <2> QED
      BY <2>1
  <1>3. /\ Len(buffer) >= 1 => buffer[1] = Magic0
        /\ Len(buffer) >= 2 => HasMagic(buffer)
        /\ Len(buffer) >= HeaderSize =>
              /\ buffer[3] = ProtocolVersion
              /\ PayloadLength(buffer) <= MaxPayload
              /\ FrameLength(buffer) = Len(f)
              /\ Len(buffer) >= FrameLength(buffer)
                   => SubSeq(buffer, 1, FrameLength(buffer)) = f
    BY <1>1, <1>2, FrameStands
  <1>4. ~ DropStrayByte
    BY <1>1, <1>3 DEF DropStrayByte
  <1>5. ~ RejectMagic
    BY <1>3 DEF RejectMagic
  <1>6. ~ RejectVersion
    BY <1>3 DEF RejectVersion, HeaderRead
  <1>7. ~ RejectLength
    <2> SUFFICES ASSUME Len(buffer) >= HeaderSize, PayloadLength(buffer) > MaxPayload
                 PROVE  FALSE
      BY DEF RejectLength, LengthRead, HeaderRead
    <2>1. PayloadLength(buffer) \in Nat
      BY <1>1, FrameLengthBounds
    <2> QED
      BY <1>1, <1>3, <2>1
  <1>8. ~ RejectFrame
    BY <1>3 DEF RejectFrame, FrameRead, FrameComplete, FramePlausible, LengthRead, HeaderRead, Candidate
  <1> QED
    BY <1>4, <1>5, <1>6, <1>7, <1>8

\* Neither does a resynchronisation pass over the beginning of a frame.
LEMMA SkippedHopeless ==
  ASSUME NEW b \in Seq(Byte), NEW k \in 0..Len(b), ResyncPoint(b, k),
         NEW i \in 2..k
  PROVE  NoFrameFrom(b, i)
  <1>1. /\ Len(b) \in Nat /\ i \in Nat /\ i >= 2 /\ k \in Nat /\ i <= k /\ k <= Len(b)
        /\ HeaderSize \in Nat /\ HeaderSize >= 5 /\ CrcSize \in Nat
    BY LenProperties, WireAssumption
  <1>2. ASSUME NEW f \in Seq(Byte), DecodeResult(f) = "OK"
        PROVE  /\ f[1] = Magic0 /\ f[2] = Magic1
               /\ 1 \in 1..Len(f) /\ 2 \in 1..Len(f)
    <2>1. HasMagic(f)
      BY <1>2 DEF DecodeResult
    <2>2. Len(f) \in Nat /\ Len(f) >= HeaderSize + CrcSize
      BY <1>2, AcceptedFits, LenProperties
    <2> QED
      BY <1>1, <2>1, <2>2 DEF HasMagic
  <1>3. i + 1 - 1 = i /\ i + 2 - 1 = i + 1
    BY <1>1
  <1>4. CASE i <= Len(b) - 1
    <2>1. i \notin MagicPositions(b)
      <3>1. CASE \A p \in MagicPositions(b) : k < p
        <4>1. ~(k < i)
          BY <1>1
        <4> QED
          BY <3>1, <4>1
      <3>2. CASE MagicPositions(b) = {}
        BY <3>2
      <3> QED
        BY <3>1, <3>2 DEF ResyncPoint
    <2>2. b[i] # Magic0 \/ b[i + 1] # Magic1
      <3>1. i \in 2..(Len(b) - 1)
        BY <1>1, <1>4
      <3> QED
        BY <2>1, <3>1 DEF MagicPositions
    <2>3. i <= Len(b) /\ i + 1 <= Len(b)
      BY <1>1, <1>4
    <2>4. ASSUME NEW f \in Seq(Byte), DecodeResult(f) = "OK"
          PROVE  \E j \in 1..Len(f) : i + j - 1 <= Len(b) /\ b[i + j - 1] # f[j]
      <3>1. CASE b[i] # Magic0
        BY <1>2, <1>3, <2>3, <2>4, <3>1
      <3>2. CASE b[i + 1] # Magic1
        BY <1>2, <1>3, <2>3, <2>4, <3>2
      <3> QED
        BY <2>2, <3>1, <3>2
    <2> QED
      BY <2>4 DEF NoFrameFrom
  <1>5. CASE i = Len(b)
    <2>1. k = Len(b) /\ MagicPositions(b) = {}
      BY <1>1, <1>5 DEF ResyncPoint, MagicPositions
    <2>2. b[i] # Magic0
      BY <1>1, <1>5, <2>1 DEF ResyncPoint
    <2>3. ASSUME NEW f \in Seq(Byte), DecodeResult(f) = "OK"
          PROVE  \E j \in 1..Len(f) : i + j - 1 <= Len(b) /\ b[i + j - 1] # f[j]
      <3>1. f[1] = Magic0 /\ 1 \in 1..Len(f) /\ i <= Len(b)
        BY <1>1, <1>2, <1>5, <2>3
      <3> QED
        BY <1>3, <2>2, <3>1
    <2> QED
      BY <2>3 DEF NoFrameFrom
  <1> QED
    BY <1>1, <1>4, <1>5

\* The three ways an iteration of the parse loop can end, told by what it does
\* with the bytes.
Keeps == buffer' = buffer /\ delivered' = delivered

DropsNoise ==
  /\ delivered' = delivered
  /\ \E k \in 1..Len(buffer) : /\ buffer' = Rest(buffer, k)
                               /\ \A i \in 1..k : NoFrameFrom(buffer, i)

LEMMA ParseSorts ==
  ASSUME TypeInv, Parse
  PROVE  Keeps \/ DropsNoise \/ EmitFrame
  <1>1. buffer \in Seq(Byte) /\ Len(buffer) \in Nat
    BY LenProperties DEF TypeInv, TypeOK
  <1>2. ASSUME NEW k \in 1..Len(buffer), DiscardPrefix(k, stats) \/ buffer' = Rest(buffer, k),
               NoFrameFrom(buffer, 1), \A i \in 2..k : NoFrameFrom(buffer, i),
               delivered' = delivered
        PROVE  DropsNoise
    <2>1. \A i \in 1..k : i = 1 \/ i \in 2..k
      BY <1>1
    <2>2. \A i \in 1..k : NoFrameFrom(buffer, i)
      BY <1>2, <2>1
    <2>3. buffer' = Rest(buffer, k)
      BY <1>2 DEF DiscardPrefix, Rest
    <2> QED
      BY <1>2, <2>2, <2>3 DEF DropsNoise
  <1>3. ASSUME NEW st, Resync(st), Len(buffer) >= 2, NoFrameFrom(buffer, 1),
               delivered' = delivered
        PROVE  DropsNoise
    <2>1. PICK k \in 0..Len(buffer) : ResyncPoint(buffer, k) /\ DiscardPrefix(k, st)
      BY <1>3 DEF Resync
    <2>2. k \in 1..Len(buffer)
      BY <1>1, <1>3, <2>1, ResyncProgress
    <2>3. \A i \in 2..k : NoFrameFrom(buffer, i)
      BY <1>1, <2>1, SkippedHopeless
    <2>4. buffer' = Rest(buffer, k)
      BY <2>1 DEF DiscardPrefix, Rest
    <2> QED
      BY <1>2, <1>3, <2>2, <2>3, <2>4
  <1>4. HeaderRead => Len(buffer) >= 2
    BY <1>1, WireAssumption DEF HeaderRead
  <1>5. CASE DropStrayByte
    <2>1. NoFrameFrom(buffer, 1) /\ 1 \in 1..Len(buffer) /\ \A i \in 2..1 : NoFrameFrom(buffer, i)
      BY <1>1, <1>5, RejectedHead DEF DropStrayByte
    <2> QED
      BY <1>2, <1>5, <2>1 DEF DropStrayByte
  <1>6. CASE AwaitMore
    BY <1>6 DEF AwaitMore, Keeps
  <1>7. CASE RejectMagic
    BY <1>3, <1>7, RejectedHead DEF RejectMagic
  <1>8. CASE RejectVersion
    BY <1>3, <1>4, <1>8, RejectedHead DEF RejectVersion
  <1>9. CASE RejectLength
    BY <1>3, <1>4, <1>9, RejectedHead DEF RejectLength, LengthRead
  <1>10. CASE RejectFrame
    BY <1>3, <1>4, <1>10, RejectedHead DEF RejectFrame, FrameRead, FrameComplete, FramePlausible, LengthRead
  <1> QED
    BY <1>5, <1>6, <1>7, <1>8, <1>9, <1>10 DEF Parse

------------------------------------------------------------------------------
(***************************************************************************)
(* Every step keeps the account of the line.                               *)
(***************************************************************************)
LEMMA HopelessOnLine ==
  ASSUME NEW h, NEW fa, NEW b, Divided(h, fa, b),
         NEW i \in 1..Len(b), NoFrameFrom(b, i)
  PROVE  NoFrameFrom(h, Len(fa) + i)
  <1>1. /\ Len(fa) \in Nat /\ Len(b) \in Nat /\ Len(h) = Len(fa) + Len(b)
        /\ \A m \in 1..Len(b) : b[m] = h[Len(fa) + m]
    BY LenProperties DEF Divided
  <1>2. ASSUME NEW f \in Seq(Byte), DecodeResult(f) = "OK"
        PROVE  \E j \in 1..Len(f) : /\ Len(fa) + i + j - 1 <= Len(h)
                                    /\ h[Len(fa) + i + j - 1] # f[j]
    <2>1. PICK j \in 1..Len(f) : i + j - 1 <= Len(b) /\ b[i + j - 1] # f[j]
      BY <1>2 DEF NoFrameFrom
    <2>2. Len(f) \in Nat
      BY LenProperties
    <2>3. /\ i + j - 1 \in 1..Len(b)
          /\ Len(fa) + (i + j - 1) = Len(fa) + i + j - 1
          /\ Len(fa) + i + j - 1 <= Len(h)
      BY <1>1, <2>1, <2>2
    <2>4. h[Len(fa) + i + j - 1] # f[j]
      BY <1>1, <2>1, <2>3
    <2> QED
      BY <2>3, <2>4
  <1> QED
    BY <1>2 DEF NoFrameFrom

LEMMA NoneLeaves ==
  ASSUME NEW fa \in Seq(Int), NEW how
  PROVE  Marked(fa, 0, how) = fa
  <1>1. [i \in 1..0 |-> how] = <<>>
    OBVIOUS
  <1> QED
    BY <1>1, ConcatEmptySeq DEF Marked

LineInv == OnceInv /\ IdleCandidate /\ Received(heard, fate, buffer, delivered)

LEMMA GateOnLine == [ReceptionNext]_receptionVars => [IngressNext]_ingressVars
  BY DEF ReceptionNext, Offer, TakeByte, Decide, LetGo, IngressNext, receptionVars

LEMMA TakeByteKeeps ==
  ASSUME LineInv, TakeByte
  PROVE  Received(heard, fate, buffer, delivered)'
  <1>1. /\ TypeInv /\ IdleCandidate /\ buffer \in Seq(Byte) /\ Len(buffer) \in Nat
        /\ Received(heard, fate, buffer, delivered) /\ fate \in Seq(Int)
    BY LenProperties DEF LineInv, OnceInv, CallsInv, TypeInv, TypeOK, Received, Divided
  <1>2. ReadByte /\ pc = "read" /\ delivered' = delivered
    BY DEF TakeByte, IngressRead, ReadByte
  <1>3. Head(input) \in Byte
    BY <1>1, <1>2, HeadTailProperties DEF TypeInv, TypeOK
  <1>4. Len(buffer) # MaxFrame
    <2>1. MaxFrame \in Nat
      BY WireAssumption DEF MaxFrame
    <2> QED
      BY <1>1, <1>2, <2>1, RoomLeft
  <1>5. buffer' = Append(buffer, Head(input)) /\ heard' = Append(heard, Head(input))
    BY <1>2, <1>4 DEF ReadByte, TakeByte
  <1>6. Len(buffer') = Len(buffer) + 1
    BY <1>1, <1>3, <1>5, AppendProperties
  <1>7. fate' = fate
    <2>1. Len(buffer) + 1 - Len(buffer') = 0
      BY <1>1, <1>6
    <2>2. fate' = Marked(fate, 0, Noise)
      BY <2>1 DEF TakeByte, Leave, Marked
    <2> QED
      BY <1>1, <2>2, NoneLeaves
  <1> QED
    BY <1>1, <1>2, <1>3, <1>5, <1>7, ByteTaken

LEMMA DecideKeeps ==
  ASSUME LineInv, Decide
  PROVE  Received(heard, fate, buffer, delivered)'
  <1> DEFINE k == Len(buffer) - Len(buffer')
             how == IF delivered' = delivered THEN Noise ELSE Len(delivered')
  <1>1. /\ TypeInv /\ buffer \in Seq(Byte) /\ Len(buffer) \in Nat
        /\ Received(heard, fate, buffer, delivered) /\ fate \in Seq(Int)
        /\ Divided(heard, fate, buffer) /\ delivered \in Seq(Seq(Byte))
    BY LenProperties
       DEF LineInv, OnceInv, CallsInv, TypeInv, TypeOK, Received, Divided
  <1>2. Parse /\ heard' = heard /\ fate' = Marked(fate, k, how)
    BY DEF Decide, IngressParse, Leave, Marked
  <1>3. CASE Keeps
    <2>1. k = 0
      BY <1>1, <1>3 DEF Keeps
    <2> HIDE DEF k, how
    <2>2. fate' = fate
      BY <1>1, <1>2, <2>1, NoneLeaves
    <2> QED
      BY <1>1, <1>2, <1>3, <2>2 DEF Keeps
  <1>4. CASE DropsNoise
    <2>1. PICK n \in 1..Len(buffer) : /\ buffer' = Rest(buffer, n)
                                     /\ \A i \in 1..n : NoFrameFrom(buffer, i)
      BY <1>4 DEF DropsNoise
    <2>2. n \in 0..Len(buffer) /\ n \in Nat
      BY <1>1
    <2>3. k = n
      <3>1. Len(buffer') = Len(buffer) - n
        BY <1>1, <2>1, <2>2, DropPrefix DEF Rest
      <3> QED
        BY <1>1, <2>2, <3>1
    <2>4. how = Noise /\ delivered' = delivered
      BY <1>4 DEF DropsNoise
    <2>5. fate' = Marked(fate, n, Noise)
      BY <1>2, <2>3, <2>4
    <2>6. \A i \in 1..n : NoFrameFrom(heard, Len(fate) + i)
      <3>1. \A i \in 1..n : i \in 1..Len(buffer)
        BY <1>1
      <3> QED
        BY <1>1, <2>1, <3>1, HopelessOnLine
    <2>7. Received(heard, Marked(fate, n, Noise), Rest(buffer, n), delivered)
      BY <1>1, <2>2, <2>6, BytesGone
    <2> QED
      BY <1>2, <2>1, <2>4, <2>5, <2>7
  <1>5. CASE EmitFrame
    <2> DEFINE n == FrameLength(buffer)
    <2>1. n \in 1..Len(buffer) /\ n \in 0..Len(buffer) /\ n \in Nat
      <3>1. Len(buffer) >= HeaderSize /\ Len(buffer) >= n
        BY <1>5 DEF EmitFrame, FrameRead, FrameComplete, FramePlausible, LengthRead, HeaderRead
      <3>2. n \in Nat /\ n >= HeaderSize + CrcSize
        BY <1>1, <3>1, FrameLengthBounds
      <3> HIDE DEF n
      <3> QED
        BY <1>1, <3>1, <3>2, WireAssumption
    <2>2. /\ delivered' = Append(delivered, SubSeq(buffer, 1, n))
          /\ DecodeResult(SubSeq(buffer, 1, n)) = "OK"
          /\ buffer' = Rest(buffer, n)
      BY <1>5 DEF EmitFrame, Candidate, Rest
    <2> HIDE DEF n
    <2>3. k = n
      <3>1. Len(buffer') = Len(buffer) - n
        BY <1>1, <2>1, <2>2, DropPrefix DEF Rest
      <3> QED
        BY <1>1, <2>1, <3>1
    <2>4. how = Len(delivered')
      <3>1. SubSeq(buffer, 1, n) \in Seq(Byte)
        <4>1. \A i \in 1..n : buffer[i] \in Byte
          BY <1>1, <2>1, ElementOfSeq
        <4> QED
          BY <2>1, <4>1, SubSeqProperties
      <3>2. Len(delivered') = Len(delivered) + 1 /\ Len(delivered) \in Nat
        BY <1>1, <2>2, <3>1, AppendProperties, LenProperties
      <3>3. delivered' # delivered
        BY <3>2
      <3> QED
        BY <3>3
    <2>5. fate' = Marked(fate, n, Len(delivered'))
      BY <1>2, <2>3, <2>4
    <2>6. Received(heard, Marked(fate, n, Len(Append(delivered, SubSeq(buffer, 1, n)))),
                   Rest(buffer, n), Append(delivered, SubSeq(buffer, 1, n)))
      BY <1>1, <2>1, <2>2, FrameGone
    <2> QED
      BY <1>2, <2>2, <2>5, <2>6
  <1> QED
    BY <1>1, <1>2, <1>3, <1>4, <1>5, ParseSorts

LEMMA LetGoKeeps ==
  ASSUME LineInv, LetGo
  PROVE  Received(heard, fate, buffer, delivered)'
  <1>1. /\ buffer \in Seq(Byte) /\ Len(buffer) \in Nat
        /\ Received(heard, fate, buffer, delivered)
    BY LenProperties DEF LineInv, OnceInv, CallsInv, TypeInv, TypeOK
  <1>2. /\ buffer' = <<>> /\ delivered' = delivered /\ heard' = heard
        /\ fate' = Marked(fate, Len(buffer), GivenUp)
    BY DEF LetGo, IngressReset, GapReset, Leave, Marked
  <1>3. Len(buffer) \in 0..Len(buffer) /\ GivenUp # Noise
    BY <1>1 DEF GivenUp, Noise
  <1>4. Rest(buffer, Len(buffer)) = <<>>
    BY <1>1, SubSeqEmpty DEF Rest
  <1>5. Received(heard, Marked(fate, Len(buffer), GivenUp), Rest(buffer, Len(buffer)), delivered)
    BY <1>1, <1>3, BytesGone
  <1> QED
    BY <1>2, <1>4, <1>5

LEMMA StepLineInv == LineInv /\ [ReceptionNext]_receptionVars => LineInv'
  <1> SUFFICES ASSUME LineInv, [ReceptionNext]_receptionVars
               PROVE  LineInv'
    OBVIOUS
  <1>1. [IngressNext]_ingressVars /\ OnceInv /\ TypeInv /\ IdleCandidate
    BY GateOnLine DEF LineInv, OnceInv, CallsInv
  <1>2. OnceInv' /\ TypeInv'
    BY <1>1, StepOnce DEF OnceInv, CallsInv
  <1>3. [Next]_vars
    BY <1>1 DEF IngressNext, IngressFeed, IngressRead, IngressParse, IngressReset,
                ingressVars, Next
  <1>4. IdleCandidate'
    BY <1>1, <1>2, <1>3, StepIdleCandidate
  <1>5. Received(heard, fate, buffer, delivered)'
    <2>1. CASE Offer
      <3>1. UNCHANGED <<heard, fate, buffer, delivered>>
        BY <2>1 DEF Offer, IngressFeed, Feed
      <3> QED
        BY <3>1 DEF LineInv
    <2>2. CASE UNCHANGED receptionVars
      <3>1. UNCHANGED <<heard, fate, buffer, delivered>>
        BY <2>2 DEF receptionVars, ingressVars, vars
      <3> QED
        BY <3>1 DEF LineInv
    <2> QED
      BY <2>1, <2>2, TakeByteKeeps, DecideKeeps, LetGoKeeps DEF ReceptionNext
  <1> QED
    BY <1>2, <1>4, <1>5 DEF LineInv

LEMMA InitLineInv == ReceptionInit => LineInv
  <1> SUFFICES ASSUME ReceptionInit
               PROVE  LineInv
    OBVIOUS
  <1>1. heard = <<>> /\ fate = <<>> /\ buffer = <<>> /\ delivered = <<>> /\ IngressInit /\ Init
    BY DEF ReceptionInit, IngressInit, Init
  <1>2. /\ Len(<<>>) = 0 /\ <<>> \in Seq(Byte) /\ <<>> \in Seq(Int) /\ <<>> \in Seq(Seq(Byte))
    BY EmptySeq
  <1>3. Received(<<>>, <<>>, <<>>, <<>>)
    <2>1. Divided(<<>>, <<>>, <<>>)
      BY <1>2 DEF Divided
    <2>2. NoiseIsHopeless(<<>>, <<>>) /\ FramesStand(<<>>, <<>>, <<>>) /\ FatesInOrder(<<>>, <<>>)
      BY <1>2 DEF NoiseIsHopeless, FramesStand, FatesInOrder
    <2> QED
      BY <2>1, <2>2 DEF Received
  <1> QED
    BY <1>1, <1>3, InitOnce, InitIdleCandidate DEF LineInv

------------------------------------------------------------------------------
(***************************************************************************)
(* What the account tells.                                                 *)
(***************************************************************************)
\* The bytes of a frame on the line.
LEMMA StretchAt ==
  ASSUME heard \in Seq(Byte), NEW p \in 1..Len(heard), FrameAt(p)
  PROVE  /\ Stretch(p) \in Seq(Byte) /\ DecodeResult(Stretch(p)) = "OK"
         /\ Len(Stretch(p)) \in Nat /\ Len(Stretch(p)) >= HeaderSize + CrcSize
         /\ p + Len(Stretch(p)) - 1 <= Len(heard)
         /\ \A j \in 1..Len(Stretch(p)) : Stretch(p)[j] = heard[p + j - 1]
  <1> DEFINE n == Claimed(p)
             f == Stretch(p)
  <1>1. /\ Len(heard) \in Nat /\ p \in Nat /\ p >= 1
        /\ HeaderSize \in Nat /\ HeaderSize >= 5 /\ CrcSize \in Nat /\ ByteBase \in Nat
        /\ p + HeaderSize - 1 <= Len(heard) /\ p + n - 1 <= Len(heard)
    BY LenProperties, WireAssumption DEF FrameAt
  <1>2. n \in Nat /\ n >= HeaderSize + CrcSize
    <2> DEFINE lo == heard[p + HeaderSize - 2]
               hi == heard[p + HeaderSize - 2 + 1]
    <2>1. p + HeaderSize - 2 \in 1..Len(heard) /\ p + HeaderSize - 2 + 1 \in 1..Len(heard)
      BY <1>1
    <2>2. lo \in Nat /\ hi \in Nat
      BY <2>1, ElementOfSeq, ByteIsNat
    <2>3. n = HeaderSize + (lo + ByteBase * hi) + CrcSize
      BY DEF Claimed, ReadU16
    <2> HIDE DEF lo, hi, n
    <2>4. ByteBase * hi \in Nat
      BY <1>1, <2>2, ProductNat
    <2> QED
      BY <1>1, <2>2, <2>3, <2>4
  <1>3. \A i \in p..(p + n - 1) : heard[i] \in Byte
    <2> HIDE DEF n
    <2>1. \A i \in p..(p + n - 1) : i \in 1..Len(heard)
      BY <1>1, <1>2
    <2> QED
      BY <2>1, ElementOfSeq
  <1>4. f = SubSeq(heard, p, p + n - 1)
    BY DEF Stretch
  <1>ok. DecodeResult(f) = "OK"
    BY DEF FrameAt
  <1> HIDE DEF n, f
  <1>5. /\ f \in Seq(Byte) /\ Len(f) = n
        /\ \A j \in 1..n : f[j] = heard[p + j - 1]
    <2>1. /\ p \in Int /\ p + n - 1 \in Int /\ p <= p + n - 1
          /\ (p + n - 1) - p + 1 = n
      BY <1>1, <1>2
    <2>2. /\ f \in Seq(Byte) /\ Len(f) = (p + n - 1) - p + 1
          /\ \A j \in 1..((p + n - 1) - p + 1) : f[j] = heard[p + j - 1]
      BY <1>3, <1>4, <2>1, SubSeqProperties
    <2> QED
      BY <2>1, <2>2
  <1> QED
    BY <1>1, <1>2, <1>5, <1>ok DEF f

LEMMA LineTyped ==
  ASSUME LineInv
  PROVE  /\ heard \in Seq(Byte) /\ buffer \in Seq(Byte) /\ fate \in Seq(Int)
         /\ delivered \in Seq(Seq(Byte))
         /\ Len(heard) \in Nat /\ Len(buffer) \in Nat /\ Len(fate) \in Nat
         /\ Len(delivered) \in Nat
         /\ DOMAIN heard = 1..Len(heard) /\ DOMAIN fate = 1..Len(fate)
         /\ DOMAIN delivered = 1..Len(delivered)
         /\ Len(heard) = Len(fate) + Len(buffer)
         /\ \A i \in 1..Len(buffer) : buffer[i] = heard[Len(fate) + i]
  BY LenProperties DEF LineInv, Received, Divided, FramesStand

LEMMA NoiseHoldsNoFrame == LineInv => NoFrameMissed
  <1> SUFFICES ASSUME LineInv, NEW p \in DOMAIN fate, fate[p] = Noise, FrameAt(p)
               PROVE  FALSE
    BY DEF NoFrameMissed
  <1>1. heard \in Seq(Byte) /\ p \in 1..Len(fate) /\ p \in 1..Len(heard) /\ p \in Nat
    BY LineTyped
  <1>2. NoFrameFrom(heard, p)
    BY <1>1 DEF LineInv, Received, NoiseIsHopeless
  <1>3. /\ Stretch(p) \in Seq(Byte) /\ DecodeResult(Stretch(p)) = "OK"
        /\ \A j \in 1..Len(Stretch(p)) : Stretch(p)[j] = heard[p + j - 1]
    BY <1>1, StretchAt
  <1>4. PICK j \in 1..Len(Stretch(p)) : heard[p + j - 1] # Stretch(p)[j]
    BY <1>2, <1>3 DEF NoFrameFrom
  <1> QED
    BY <1>3, <1>4

\* What is proved of the gate under IngressSpec holds of the gate on this line.
THEOREM LineRunsTheGate == ReceptionSpec => IngressSpec
  <1>1. ReceptionInit => IngressInit
    BY DEF ReceptionInit
  <1> QED
    BY <1>1, GateOnLine, PTL DEF ReceptionSpec, IngressSpec

\* Nothing the decoder throws away was, or ever becomes, a frame: for every
\* geometry, every CRC and whatever the line brings.
THEOREM NoiseIsNoFrame == ReceptionSpec => []NoFrameMissed
  BY InitLineInv, StepLineInv, NoiseHoldsNoFrame, PTL DEF ReceptionSpec

LEMMA DeliveredStands == LineInv => DeliveredAsReceived
  <1> SUFFICES ASSUME LineInv
               PROVE  DeliveredAsReceived
    OBVIOUS
  <1>1. /\ delivered \in Seq(Seq(Byte))
        /\ Len(heard) \in Nat /\ Len(fate) \in Nat /\ Len(fate) <= Len(heard)
        /\ DOMAIN heard = 1..Len(heard) /\ DOMAIN fate = 1..Len(fate)
        /\ DOMAIN delivered = 1..Len(delivered)
    BY LineTyped
  <1>2. ASSUME NEW n \in DOMAIN delivered
        PROVE  \E p \in DOMAIN heard :
                 /\ {q \in DOMAIN fate : fate[q] = n} = p..(p + Len(delivered[n]) - 1)
                 /\ \A i \in DOMAIN delivered[n] : delivered[n][i] = heard[p + i - 1]
    <2> DEFINE frame == delivered[n]
    <2>1. frame \in Seq(Byte) /\ DecodeResult(frame) = "OK"
      BY <1>1, ElementOfSeq DEF LineInv, Received, FramesStand
    <2>2. PICK p : StandsAt(heard, fate, n, frame, p)
      BY <1>1 DEF LineInv, Received, FramesStand
    <2> HIDE DEF frame
    <2>3. Len(frame) \in Nat /\ Len(frame) >= 1 /\ DOMAIN frame = 1..Len(frame)
      BY <2>1, AcceptedFits, LenProperties, WireAssumption
    <2>4. /\ p \in Nat \ {0} /\ p + Len(frame) - 1 <= Len(fate)
          /\ \A q \in 1..Len(fate) : fate[q] = n <=> q \in p..(p + Len(frame) - 1)
          /\ \A i \in 1..Len(frame) : frame[i] = heard[p + i - 1]
      BY <2>2 DEF StandsAt
    <2>5. p \in DOMAIN heard /\ \A q \in p..(p + Len(frame) - 1) : q \in 1..Len(fate)
      BY <1>1, <2>3, <2>4
    <2>6. {q \in DOMAIN fate : fate[q] = n} = p..(p + Len(frame) - 1)
      BY <1>1, <2>4, <2>5
    <2> QED
      BY <2>3, <2>4, <2>5, <2>6 DEF frame
  <1>3. ASSUME NEW p \in DOMAIN fate, NEW q \in DOMAIN fate, p < q, fate[q] > 0
        PROVE  fate[p] <= fate[q]
    <2>1. fate[p] \in Int /\ fate[q] \in Int
      BY <1>1, LineTyped, ElementOfSeq
    <2>2. CASE fate[p] > 0
      BY <1>1, <1>3, <2>2 DEF LineInv, Received, FatesInOrder
    <2>3. CASE ~(fate[p] > 0)
      BY <1>3, <2>1, <2>3
    <2> QED
      BY <2>2, <2>3
  <1> QED
    BY <1>2, <1>3 DEF DeliveredAsReceived

\* A delivered frame is a stretch of the line as it came, frames share no byte,
\* and they keep the order of the line.
THEOREM FramesAreOfTheLine == ReceptionSpec => []DeliveredAsReceived
  BY InitLineInv, StepLineInv, DeliveredStands, PTL DEF ReceptionSpec

\* A whole frame never waits at the head of the buffer between two calls.
LEMMA WholeFrameLeaves ==
  ASSUME LineInv, pc = "idle", NEW p \in 1..Len(heard), FrameAt(p), p > Len(fate)
  PROVE  BehindCandidate(p)
  <1>1. /\ TypeInv /\ IdleCandidate /\ heard \in Seq(Byte) /\ buffer \in Seq(Byte)
        /\ Len(heard) \in Nat /\ Len(buffer) \in Nat /\ Len(fate) \in Nat
        /\ Len(heard) = Len(fate) + Len(buffer)
        /\ \A i \in 1..Len(buffer) : buffer[i] = heard[Len(fate) + i]
        /\ HeaderSize \in Nat /\ HeaderSize >= 5 /\ CrcSize \in Nat /\ p \in Nat
    <2>1. TypeInv /\ IdleCandidate
      BY DEF LineInv, OnceInv, CallsInv
    <2>2. /\ heard \in Seq(Byte) /\ buffer \in Seq(Byte)
          /\ Len(heard) \in Nat /\ Len(buffer) \in Nat /\ Len(fate) \in Nat
          /\ Len(heard) = Len(fate) + Len(buffer)
          /\ \A i \in 1..Len(buffer) : buffer[i] = heard[Len(fate) + i]
      BY LineTyped
    <2>3. p \in Nat /\ HeaderSize \in Nat /\ HeaderSize >= 5 /\ CrcSize \in Nat
      BY <2>2, WireAssumption
    <2> QED
      BY <2>1, <2>2, <2>3
  <1>2. Len(buffer) < MaxFrame
    BY <1>1, RoomLeft
  <1>3. ASSUME p = Len(fate) + 1
        PROVE  FALSE
    <2> DEFINE f == Stretch(p)
    <2>1. /\ f \in Seq(Byte) /\ DecodeResult(f) = "OK"
          /\ Len(f) \in Nat /\ Len(f) >= HeaderSize + CrcSize
          /\ p + Len(f) - 1 <= Len(heard)
          /\ \A j \in 1..Len(f) : f[j] = heard[p + j - 1]
      BY <1>1, StretchAt
    <2> HIDE DEF f
    <2>2. Len(buffer) >= Len(f) /\ Len(buffer) >= HeaderSize
      BY <1>1, <1>3, <2>1
    <2>3. \A j \in 1..Len(f) : j <= Len(buffer) => buffer[j] = f[j]
      <3>1. \A j \in 1..Len(f) : p + j - 1 = Len(fate) + j /\ j \in 1..Len(buffer)
        BY <1>1, <1>3, <2>1, <2>2
      <3> QED
        BY <1>1, <2>1, <3>1
    <2>4. FrameLength(buffer) = Len(f)
      BY <1>1, <2>1, <2>2, <2>3, FrameStands
    <2>5. Len(buffer) < FrameLength(buffer)
      BY <1>1, <2>2 DEF IdleCandidate
    <2> QED
      BY <1>1, <2>1, <2>2, <2>4, <2>5
  <1>4. p > Len(fate) + 1 /\ Len(heard) - Len(fate) < MaxFrame
    <2>1. Len(heard) - Len(fate) = Len(buffer)
      BY <1>1
    <2> QED
      BY <1>1, <1>2, <1>3, <2>1
  <1> QED
    BY <1>4 DEF BehindCandidate

\* A command frame among those delivered was handed to the consumer.
LEMMA CommandDispatched ==
  ASSUME LineInv, NEW n \in DOMAIN delivered, IsCommand(delivered[n])
  PROVE  \E i \in DOMAIN dispatched : dispatched[i].frame = delivered[n]
  <1>1. PICK place : Placed(dispatched, delivered, place)
    BY PlacedMeans DEF LineInv, OnceInv
  <1>2. n \in {place[i] : i \in DOMAIN dispatched}
    BY <1>1 DEF Placed
  <1>3. PICK i \in DOMAIN dispatched : place[i] = n
    BY <1>2
  <1> QED
    BY <1>1, <1>3 DEF Placed

LEMMA CommandAccounted ==
  ASSUME LineInv, NEW p \in 1..Len(fate), FrameAt(p), IsCommand(Stretch(p))
  PROVE  HandedOver(p) \/ WithinFrame(p) \/ fate[p] = GivenUp
  <1> DEFINE n == fate[p]
             f == Stretch(p)
  <1>1. /\ heard \in Seq(Byte) /\ delivered \in Seq(Seq(Byte))
        /\ Len(heard) \in Nat /\ Len(fate) \in Nat /\ Len(delivered) \in Nat
        /\ DOMAIN fate = 1..Len(fate) /\ DOMAIN delivered = 1..Len(delivered)
        /\ p \in 1..Len(heard) /\ p \in Nat /\ p >= 1
    BY LineTyped
  <1>2. n \in GivenUp..Len(delivered)
    BY DEF LineInv, Received, FatesInOrder
  <1>3. n # Noise
    BY <1>1, NoiseHoldsNoFrame DEF NoFrameMissed
  <1>4. n = GivenUp \/ n \in 1..Len(delivered)
    <2> HIDE DEF n
    <2> QED
      BY <1>1, <1>2, <1>3 DEF Noise, GivenUp
  <1>5. CASE n \in 1..Len(delivered)
    <2> DEFINE e == delivered[n]
    <2>1. e \in Seq(Byte) /\ DecodeResult(e) = "OK" /\ n > 0
      BY <1>1, <1>5, ElementOfSeq DEF LineInv, Received, FramesStand
    <2>2. PICK o : StandsAt(heard, fate, n, e, o)
      BY <1>5 DEF LineInv, Received, FramesStand
    <2>3. /\ f \in Seq(Byte) /\ DecodeResult(f) = "OK" /\ Len(f) \in Nat
          /\ \A j \in 1..Len(f) : f[j] = heard[p + j - 1]
      BY <1>1, StretchAt
    <2>cmd. IsCommand(f)
      OBVIOUS
    <2> HIDE DEF e, f
    <2>4. /\ Len(e) \in Nat /\ o \in Nat \ {0} /\ o + Len(e) - 1 <= Len(fate)
          /\ \A q \in 1..Len(fate) : fate[q] = n <=> q \in o..(o + Len(e) - 1)
          /\ \A i \in 1..Len(e) : e[i] = heard[o + i - 1]
      BY <2>1, <2>2, LenProperties DEF StandsAt
    <2>5. p \in o..(o + Len(e) - 1)
      BY <2>4
    <2>6. CASE p = o
      <3>1. \A j \in 1..Len(f) : j <= Len(e) => e[j] = f[j]
        BY <2>3, <2>4, <2>6
      <3>2. e = f
        BY <2>1, <2>3, <3>1, OneFrame
      <3>3. \E i \in DOMAIN dispatched : dispatched[i].frame = f
        BY <1>1, <1>5, <2>cmd, <3>2, CommandDispatched DEF e
      <3>4. n \in DOMAIN delivered /\ delivered[n] = f
        BY <1>1, <1>5, <3>2 DEF e
      <3>5. HandedOver(p)
        BY <3>3, <3>4 DEF HandedOver, f
      <3> QED
        BY <3>5
    <2>7. CASE p # o
      <3>1. p > 1 /\ p - 1 \in 1..Len(fate) /\ p - 1 \in o..(o + Len(e) - 1)
        BY <1>1, <2>4, <2>5, <2>7
      <3>2. fate[p - 1] = n
        BY <2>4, <3>1
      <3>3. WithinFrame(p)
        BY <2>1, <3>1, <3>2 DEF WithinFrame
      <3> QED
        BY <3>3
    <2> QED
      BY <2>6, <2>7
  <1> QED
    BY <1>4, <1>5

\* Every command that stands whole on the line reaches the consumer, whatever
\* the line brings before and after it, unless a valid frame before it runs into
\* it, a gap reset gives it up or an unfinished candidate is still in front.
THEOREM CommandsGetThrough == ReceptionSpec => []CommandGetsThrough
  <1>1. LineInv => CommandGetsThrough
    <2> SUFFICES ASSUME LineInv, pc = "idle", NEW p \in DOMAIN heard,
                        FrameAt(p), IsCommand(Stretch(p))
                 PROVE  IF p > Len(fate) THEN BehindCandidate(p)
                        ELSE HandedOver(p) \/ WithinFrame(p) \/ fate[p] = GivenUp
      BY DEF CommandGetsThrough
    <2>1. p \in 1..Len(heard) /\ Len(fate) \in Nat /\ p \in Nat /\ p >= 1
      BY LineTyped
    <2>2. CASE p > Len(fate)
      BY <2>1, <2>2, WholeFrameLeaves
    <2>3. CASE ~(p > Len(fate))
      <3>1. p \in 1..Len(fate)
        BY <2>1, <2>3
      <3> QED
        BY <2>3, <3>1, CommandAccounted
    <2> QED
      BY <2>2, <2>3
  <1> QED
    BY InitLineInv, StepLineInv, <1>1, PTL DEF ReceptionSpec
=============================================================================
