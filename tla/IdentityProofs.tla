--------------------------- MODULE IdentityProofs ---------------------------
(***************************************************************************)
(* What holds of the identity service for every build, every starting      *)
(* sequence and every mix of calls that succeed, fail and are ignored.     *)
(***************************************************************************)
EXTENDS Identity, CodecProofs

U16 == {v \in Nat : v < 65536}

\* The output size identity.h promises is enough: encoding a hello cannot fail.
LEMMA HelloEncodes ==
  ASSUME NEW id
  PROVE  EmitHelloResult(id, HelloFrameSize) = "OK"
  <1> DEFINE message == HelloMessage(id)
  <1>1. message.type = "MCU_HELLO"
    BY DEF HelloMessage, Message
  <1>2. SizeResult("MCU_HELLO") = "OK" /\ PayloadSize["MCU_HELLO"] = 8
    BY DEF SizeResult, PayloadSize
  <1>3. InRange("MCU_HELLO", message.values)
    BY DEF InRange
  <1>4. EncodeResult(message, HelloPayloadSize) = "OK"
    <2> HIDE DEF message
    <2>1. SizeResult(message.type) = "OK" /\ InRange(message.type, message.values)
      BY <1>1, <1>2, <1>3
    <2>2. ValidateResult(message) = "OK"
      BY <2>1 DEF ValidateResult
    <2>3. ~(HelloPayloadSize < PayloadSize[message.type])
      BY <1>1, <1>2 DEF HelloPayloadSize
    <2> QED
      BY <2>2, <2>3 DEF EncodeResult
  <1>5. EncodeFrameResult(PayloadSize.MCU_HELLO, HelloFrameSize) = "OK"
    <2>1. PayloadSize.MCU_HELLO = 8
      BY DEF PayloadSize
    <2>2. MaxPayload \in Nat /\ HeaderSize \in Nat /\ CrcSize \in Nat /\ MaxPayload >= 8
      BY WireAssumption, IdentityAssumption
    <2>3. EncodeFrameResult(8, HelloFrameSize) = "OK"
      BY <2>2 DEF EncodeFrameResult, HelloFrameSize, HelloPayloadSize
    <2> QED
      BY <2>1, <2>3
  <1>6. ~(HelloFrameSize < HelloFrameSize)
    BY WireAssumption DEF HelloFrameSize, HelloPayloadSize
  <1> QED
    BY <1>4, <1>5, <1>6 DEF EmitHelloResult

\* Whatever the service holds, an output of HelloFrameSize is enough.
THEOREM FrameSizeAlwaysSuffices == IdentitySpec => []FrameSizeSuffices
  <1>1. FrameSizeSuffices
    BY HelloEncodes DEF FrameSizeSuffices
  <1> QED
    BY <1>1, PTL

------------------------------------------------------------------------------
(***************************************************************************)
(* The sequence numbers.                                                   *)
(***************************************************************************)

\* A 16-bit number is made of its two bytes.
LEMMA TwoBytes ==
  ASSUME NEW v \in U16
  PROVE  /\ v % 256 \in 0..255 /\ (v \div 256) % 256 \in 0..255
         /\ (v % 256) + 256 * ((v \div 256) % 256) = v
  <1> DEFINE q == v \div 256
             r == v % 256
  <1>1. v \in Nat /\ v < 65536
    BY DEF U16
  <1>2. r \in 0..255 /\ q \in 0..255 /\ v = 256 * q + r
    BY <1>1
  <1> HIDE DEF q, r
  <1>3. q % 256 = q
    BY <1>2
  <1>4. r \in 0..255 /\ q % 256 \in 0..255 /\ r + 256 * (q % 256) = v
    BY <1>2, <1>3
  <1> QED
    BY <1>4 DEF q, r

\* What the service may hold, and what it may have sent.
Identities == {Starting(version, n) : version \in Firmware, n \in U16}

Hellos == {HelloFrame(id) : id \in Identities}

HelloFields(id) ==
  <<0>> \o WriteU16(id.next_sequence) \o WriteU16(TypeCode.MCU_HELLO)

HelloPayload(id) ==
  BytesWritten(HelloMessage(id), [i \in 1..HelloPayloadSize |-> 170])

LEMMA HelloHoldable ==
  ASSUME NEW id \in Identities
  PROVE  id.next_sequence \in U16 /\ Holdable(HelloMessage(id))
  <1>1. PICK version \in Firmware, n \in U16 : id = Starting(version, n)
    BY DEF Identities
  <1>2. /\ id.next_sequence = n
        /\ HelloMessage(id) = Message("MCU_HELLO",
             <<version.major, version.minor, version.build_id>>)
    BY <1>1 DEF Starting, HelloMessage
  <1> QED
    BY <1>2, IdentityAssumption

\* The opaque fields of a hello's header.
LEMMA FieldsOfHello ==
  ASSUME NEW id \in Identities
  PROVE  /\ HelloFields(id) \in Seq(Int) /\ Len(HelloFields(id)) = 5
         /\ HelloFields(id)[2] = id.next_sequence % 256
         /\ HelloFields(id)[3] = (id.next_sequence \div 256) % 256
         /\ HelloFields(id)[4] = 0 /\ HelloFields(id)[5] = 128
  <1> DEFINE s == id.next_sequence
             a == s % 256
             b == (s \div 256) % 256
  <1>1. ByteBase = 256
    BY IdentityAssumption
  <1>2. WriteU16(s) = <<a, b>>
    BY <1>1 DEF WriteU16
  <1>3. a \in Int /\ b \in Int
    <2>1. s \in U16
      BY HelloHoldable
    <2>2. a \in 0..255 /\ b \in 0..255
      BY <2>1, TwoBytes
    <2> QED
      BY <2>2
  <1>4. WriteU16(TypeCode.MCU_HELLO) = <<0, 128>>
    BY <1>1 DEF WriteU16, TypeCode
  <1> HIDE DEF a, b
  <1>5. HelloFields(id) = <<0>> \o <<a, b>> \o <<0, 128>>
    BY <1>2, <1>4 DEF HelloFields
  <1>6. /\ HelloFields(id) \in Seq(Int) /\ Len(HelloFields(id)) = 5
        /\ HelloFields(id)[2] = a /\ HelloFields(id)[3] = b
        /\ HelloFields(id)[4] = 0 /\ HelloFields(id)[5] = 128
    BY <1>3, <1>5
  <1> QED
    BY <1>6 DEF a, b

LEMMA PayloadOfHello ==
  ASSUME NEW id \in Identities
  PROVE  HelloPayload(id) \in Seq(Int) /\ Len(HelloPayload(id)) = 8
  <1> DEFINE message == HelloMessage(id)
  <1>1. /\ message.type = "MCU_HELLO" /\ "MCU_HELLO" \in DOMAIN PayloadSize
        /\ PayloadSize["MCU_HELLO"] = 8
    BY DEF HelloMessage, Message, PayloadSize
  <1>2. Holdable(message)
    BY HelloHoldable
  <1>3. \A before : /\ BytesWritten(message, before) \in Seq(Octet)
                    /\ Len(BytesWritten(message, before)) = PayloadSize[message.type]
    <2> HIDE DEF message
    <2> QED
      BY <1>1, <1>2, EncodedPayload
  <1>4. HelloPayload(id) \in Seq(Octet) /\ Len(HelloPayload(id)) = 8
    BY <1>1, <1>3 DEF HelloPayload
  <1>5. Octet \subseteq Int
    BY DEF Octet
  <1> QED
    BY <1>4, <1>5, SeqMonotonic

LEMMA HelloIsFrame ==
  ASSUME NEW id
  PROVE  HelloFrame(id) = EncodeFrame(HelloFields(id), HelloPayload(id))
  BY DEF HelloFrame, HelloFields, HelloPayload

\* Where the sequence and the type stand in a hello.
LEMMA HelloHeader ==
  ASSUME NEW id \in Identities
  PROVE  /\ HelloFrame(id)[5] = id.next_sequence % 256
         /\ HelloFrame(id)[6] = (id.next_sequence \div 256) % 256
         /\ HelloFrame(id)[7] = 0 /\ HelloFrame(id)[8] = 128
  <1> DEFINE fields == HelloFields(id)
             payload == HelloPayload(id)
             body == BodyOf(fields, payload)
             frame == EncodeFrame(fields, payload)
  <1>1. /\ fields \in Seq(Int) /\ Len(fields) = 5
        /\ payload \in Seq(Int) /\ Len(payload) = 8
    BY FieldsOfHello, PayloadOfHello
  <1> HIDE DEF fields, payload
  <1>2. LaidOut(body, fields, payload) /\ Framed(frame, body)
    BY <1>1, BodyLayout, FrameLayout
  <1> HIDE DEF body, frame
  <1>3. /\ Len(body) = 18
        /\ \A i \in 1..5 : \A j \in Nat : j = 3 + i => body[j] = fields[i]
    BY <1>1, <1>2 DEF LaidOut
  <1>4. /\ body[5] = fields[2] /\ body[6] = fields[3]
        /\ body[7] = fields[4] /\ body[8] = fields[5]
    BY <1>3
  <1>5. /\ frame[5] = body[5] /\ frame[6] = body[6]
        /\ frame[7] = body[7] /\ frame[8] = body[8]
    BY <1>2, <1>3 DEF Framed
  <1>6. HelloFrame(id) = frame
    BY HelloIsFrame DEF frame, fields, payload
  <1>7. /\ fields[2] = id.next_sequence % 256
        /\ fields[3] = (id.next_sequence \div 256) % 256
        /\ fields[4] = 0 /\ fields[5] = 128
    BY FieldsOfHello DEF fields
  <1> QED
    BY <1>4, <1>5, <1>6, <1>7

\* A hello carries the sequence number it was given.
LEMMA HelloCarriesSequence ==
  ASSUME NEW id \in Identities
  PROVE  SequenceField(HelloFrame(id)) = id.next_sequence
  <1>1. id.next_sequence \in U16
    BY HelloHoldable
  <1>2. /\ HelloFrame(id)[5] = id.next_sequence % 256
        /\ HelloFrame(id)[6] = (id.next_sequence \div 256) % 256
    BY HelloHeader
  <1>3. (id.next_sequence % 256) + 256 * ((id.next_sequence \div 256) % 256)
          = id.next_sequence
    BY <1>1, TwoBytes
  <1>4. ByteBase = 256
    BY IdentityAssumption
  <1> QED
    BY <1>2, <1>3, <1>4 DEF SequenceField, ReadU16

\* The next number is the one after the last hello's.
NextInSequence ==
  /\ first \in U16
  /\ identity \in Identities
  /\ hellos \in Seq(Hellos)
  /\ identity.next_sequence = (first + Len(hellos)) % 65536

SequenceInv == NextInSequence /\ HellosInSequence

LEMMA IdentityFields ==
  ASSUME NEW id \in Identities
  PROVE  /\ id.next_sequence \in U16
         /\ AfterHello(id) \in Identities
         /\ AfterHello(id).next_sequence = (id.next_sequence + 1) % 65536
  <1>1. PICK version \in Firmware, n \in U16 : id = Starting(version, n)
    BY DEF Identities
  <1> DEFINE next == (n + 1) % 65536
  <1>2. next \in U16
    <2>1. n + 1 \in Nat
      BY DEF U16
    <2>2. \A m \in Nat : m % 65536 \in Nat /\ m % 65536 < 65536
      OBVIOUS
    <2> QED
      BY <2>1, <2>2 DEF U16
  <1>3. id.next_sequence = n
    BY <1>1 DEF Starting
  <1> HIDE DEF next
  <1>4. AfterHello(id) = Starting(version, next)
    BY <1>1, <1>3 DEF AfterHello, Starting, next
  <1>5. AfterHello(id).next_sequence = next
    BY <1>4 DEF Starting
  <1> QED
    BY <1>2, <1>3, <1>4, <1>5 DEF Identities, next

\* Counting on modulo 2^16.
LEMMA NextNumber ==
  ASSUME NEW f \in U16, NEW n \in Nat
  PROVE  (((f + n) % 65536) + 1) % 65536 = (f + (n + 1)) % 65536
  BY DEF U16

LEMMA InitSequence == IdentityInit => SequenceInv
  <1> SUFFICES ASSUME IdentityInit PROVE SequenceInv
    OBVIOUS
  <1>1. PICK version \in Firmware, n \in InitialSequences :
          identity = Starting(version, n) /\ first = n
    BY DEF IdentityInit
  <1>2. n \in U16
    <2>1. n \in Nat /\ n < 65536
      BY IdentityAssumption
    <2> QED
      BY <2>1 DEF U16
  <1>3. hellos = <<>>
    BY DEF IdentityInit
  <1>4. identity \in Identities /\ identity.next_sequence = first
    BY <1>1, <1>2 DEF Identities, Starting
  <1>5. first \in U16 /\ (first + 0) % 65536 = first
    <2>1. \A m \in Nat : m < 65536 => (m + 0) % 65536 = m
      OBVIOUS
    <2> QED
      BY <1>1, <1>2, <2>1 DEF U16
  <1>6. hellos \in Seq(Hellos) /\ Len(hellos) = 0 /\ DOMAIN hellos = {}
    BY <1>3
  <1> QED
    BY <1>4, <1>5, <1>6 DEF SequenceInv, NextInSequence, HellosInSequence

\* A hello that goes out is the next in sequence.
LEMMA EmitSequence ==
  ASSUME NEW capacity, SequenceInv, EmitHello(capacity)
  PROVE  SequenceInv'
  <1>1. CASE EmitHelloResult(identity, capacity) # "OK"
    <2>1. UNCHANGED identityVars
      BY <1>1 DEF EmitHello
    <2> QED
      BY <2>1 DEF SequenceInv, NextInSequence, HellosInSequence, identityVars
  <1>2. CASE EmitHelloResult(identity, capacity) = "OK"
    <2> DEFINE n == Len(hellos)
               frame == HelloFrame(identity)
    <2>1. /\ hellos' = Append(hellos, frame)
          /\ identity' = AfterHello(identity) /\ first' = first
      BY <1>2 DEF EmitHello
    <2>2. /\ first \in U16 /\ identity \in Identities /\ hellos \in Seq(Hellos)
          /\ identity.next_sequence = (first + n) % 65536
      BY DEF SequenceInv, NextInSequence
    <2>3. frame \in Hellos /\ n \in Nat
      BY <2>2, LenProperties DEF Hellos
    <2>4. SequenceField(frame) = (first + n) % 65536
      BY <2>2, HelloCarriesSequence
    <2> HIDE DEF frame, n
    <2>5. /\ hellos' \in Seq(Hellos) /\ Len(hellos') = n + 1
          /\ DOMAIN hellos' = 1..(n + 1) /\ DOMAIN hellos = 1..n
          /\ \A i \in 1..n : hellos'[i] = hellos[i]
          /\ hellos'[n + 1] = frame
      BY <2>1, <2>2, <2>3, AppendProperties, LenProperties DEF n
    <2>6. /\ identity' \in Identities
          /\ identity'.next_sequence = (first + (n + 1)) % 65536
      <3>1. identity'.next_sequence = (identity.next_sequence + 1) % 65536
            /\ identity' \in Identities
        BY <2>1, <2>2, IdentityFields
      <3>2. (((first + n) % 65536) + 1) % 65536 = (first + (n + 1)) % 65536
        BY <2>2, <2>3, NextNumber
      <3> QED
        BY <2>2, <3>1, <3>2
    <2>7. NextInSequence'
      BY <2>1, <2>2, <2>5, <2>6 DEF NextInSequence
    <2>8. ASSUME NEW i \in 1..(n + 1)
          PROVE  SequenceField(hellos'[i]) = (first + i - 1) % 65536
      <3>1. CASE i \in 1..n
        <4>1. SequenceField(hellos[i]) = (first + i - 1) % 65536
          BY <2>5, <3>1 DEF SequenceInv, HellosInSequence
        <4> QED
          BY <2>5, <3>1, <4>1
      <3>2. CASE i = n + 1
        <4>1. first + i - 1 = first + n
          BY <2>2, <2>3, <3>2 DEF U16
        <4> QED
          BY <2>4, <2>5, <3>2, <4>1
      <3> QED
        BY <2>3, <3>1, <3>2
    <2>9. HellosInSequence'
      BY <2>1, <2>5, <2>8 DEF HellosInSequence, SequenceField, ReadU16
    <2> QED
      BY <2>7, <2>9 DEF SequenceInv
  <1> QED
    BY <1>1, <1>2

\* HellosInSequence for every starting number and every number of hellos.
THEOREM HellosNumbered == IdentitySpec => []HellosInSequence
  <1>1. SequenceInv /\ [IdentityNext]_identityVars => SequenceInv'
    <2> SUFFICES ASSUME SequenceInv, [IdentityNext]_identityVars
                 PROVE  SequenceInv'
      OBVIOUS
    <2>1. CASE Announce
      BY <2>1, EmitSequence DEF Announce
    <2>2. CASE Consume
      <3>1. PICK capacity, message : HandleMessage(message, capacity)
        BY <2>2 DEF Consume
      <3>2. CASE EmitHello(capacity)
        BY <3>2, EmitSequence
      <3>3. CASE UNCHANGED identityVars
        BY <3>3 DEF SequenceInv, NextInSequence, HellosInSequence, identityVars
      <3> QED
        BY <3>1, <3>2, <3>3 DEF HandleMessage
    <2>3. CASE UNCHANGED identityVars
      BY <2>3 DEF SequenceInv, NextInSequence, HellosInSequence, identityVars
    <2> QED
      BY <2>1, <2>2, <2>3 DEF IdentityNext
  <1>2. SequenceInv => HellosInSequence
    BY DEF SequenceInv
  <1> QED
    BY InitSequence, <1>1, <1>2, PTL DEF IdentitySpec

------------------------------------------------------------------------------
(***************************************************************************)
(* What the other end makes of a hello.                                    *)
(***************************************************************************)
ReadBack(frame, id) ==
  /\ DecodeResult(frame) = "OK"
  /\ ReadU16(frame, 7) = TypeCode.MCU_HELLO
  /\ DecodePayload("MCU_HELLO", SubSeq(frame, HeaderSize + 1, Len(frame) - CrcSize))
       = [result |-> "OK", message |-> HelloMessage(id)]

\* Encoding and decoding the payload of a hello gives its message back.
LEMMA HelloDecoded ==
  ASSUME NEW id \in Identities
  PROVE  DecodePayload("MCU_HELLO", HelloPayload(id))
           = [result |-> "OK", message |-> HelloMessage(id)]
  <1> DEFINE message == HelloMessage(id)
             p == HelloPayload(id)
  <1>1. /\ message.type = "MCU_HELLO" /\ "MCU_HELLO" \in DOMAIN PayloadSize
        /\ PayloadSize["MCU_HELLO"] = 8 /\ SizeResult("MCU_HELLO") = "OK"
    BY DEF HelloMessage, Message, PayloadSize, SizeResult
  <1>2. Holdable(message) /\ Len(p) = 8
    BY HelloHoldable, PayloadOfHello
  <1>3. ValidateResult(message) = "OK"
    <2>1. InRange("MCU_HELLO", message.values)
      BY DEF InRange
    <2> HIDE DEF message
    <2> QED
      BY <1>1, <2>1 DEF ValidateResult
  <1>4. Message("MCU_HELLO", FieldsRead("MCU_HELLO", p)) = message
    <2>1. \A before :
            Message(message.type, FieldsRead(message.type, BytesWritten(message, before)))
              = message
      <3> HIDE DEF message
      <3> QED
        BY <1>1, <1>2, FieldsRestored
    <2> QED
      BY <1>1, <2>1 DEF HelloPayload
  <1> HIDE DEF message, p
  <1>5. DecodePayload("MCU_HELLO", p) = [result |-> "OK", message |-> message]
    BY <1>1, <1>2, <1>3, <1>4 DEF DecodePayload
  <1> QED
    BY <1>5 DEF message, p

LEMMA HelloReadBack ==
  ASSUME NEW id \in Identities
  PROVE  ReadBack(HelloFrame(id), id)
  <1> DEFINE fields == HelloFields(id)
             payload == HelloPayload(id)
             frame == HelloFrame(id)
  <1>1. /\ fields \in Seq(Int) /\ Len(fields) = HeaderSize - 5
        /\ payload \in Seq(Int) /\ Len(payload) <= MaxPayload
        /\ LengthKept(payload)
    <2>1. /\ fields \in Seq(Int) /\ Len(fields) = 5
          /\ payload \in Seq(Int) /\ Len(payload) = 8
      BY FieldsOfHello, PayloadOfHello
    <2>2. /\ HeaderSize = 10 /\ ByteBase = 256 /\ MaxPayload >= 8
          /\ MaxPayload \in Nat
      BY IdentityAssumption, WireAssumption
    <2> HIDE DEF fields, payload
    <2>3. 8 % 256 = 8 /\ (8 \div 256) % 256 = 0
      OBVIOUS
    <2> QED
      BY <2>1, <2>2, <2>3 DEF LengthKept
  <1>2. frame = EncodeFrame(fields, payload)
    BY HelloIsFrame
  <1>3. /\ DecodeResult(frame) = "OK"
        /\ SubSeq(frame, HeaderSize + 1, Len(frame) - CrcSize) = payload
    <2> HIDE DEF fields, payload, frame
    <2> QED
      BY <1>1, <1>2, FrameDecodes
  <1>4. ReadU16(frame, 7) = TypeCode.MCU_HELLO
    <2>1. frame[7] = 0 /\ frame[8] = 128 /\ ByteBase = 256
      BY HelloHeader, IdentityAssumption
    <2>2. TypeCode.MCU_HELLO = 32768
      BY DEF TypeCode
    <2> HIDE DEF frame
    <2> QED
      BY <2>1, <2>2 DEF ReadU16
  <1>5. DecodePayload("MCU_HELLO", payload)
          = [result |-> "OK", message |-> HelloMessage(id)]
    BY HelloDecoded
  <1> HIDE DEF payload
  <1> QED
    BY <1>3, <1>4, <1>5 DEF ReadBack

\* All hellos come from one build, whose identity the service still holds.
HellosOf(version) == {HelloFrame(Starting(version, n)) : n \in U16}

OneBuild ==
  \E version \in Firmware :
    /\ identity \in {Starting(version, n) : n \in U16}
    /\ hellos \in Seq(HellosOf(version))

LEMMA BuildKept ==
  ASSUME NEW version \in Firmware, NEW n \in U16
  PROVE  /\ Starting(version, n) \in Identities
         /\ \E m \in U16 : AfterHello(Starting(version, n)) = Starting(version, m)
  <1>1. Starting(version, n) \in Identities
    BY DEF Identities
  <1> DEFINE m == (n + 1) % 65536
  <1>2. m \in U16
    <2>1. n + 1 \in Nat
      BY DEF U16
    <2>2. \A k \in Nat : k % 65536 \in Nat /\ k % 65536 < 65536
      OBVIOUS
    <2> QED
      BY <2>1, <2>2 DEF U16
  <1>3. AfterHello(Starting(version, n)) = Starting(version, m)
    BY DEF AfterHello, Starting
  <1> HIDE DEF m
  <1> QED
    BY <1>1, <1>2, <1>3

LEMMA EmitOneBuild ==
  ASSUME NEW capacity, OneBuild, EmitHello(capacity)
  PROVE  OneBuild'
  <1>1. CASE UNCHANGED identityVars
    BY <1>1 DEF OneBuild, identityVars
  <1>2. CASE /\ hellos' = Append(hellos, HelloFrame(identity))
             /\ identity' = AfterHello(identity)
    <2>1. PICK version \in Firmware :
            /\ identity \in {Starting(version, n) : n \in U16}
            /\ hellos \in Seq(HellosOf(version))
      BY DEF OneBuild
    <2>2. PICK n \in U16 : identity = Starting(version, n)
      BY <2>1
    <2>3. HelloFrame(identity) \in HellosOf(version)
      BY <2>2 DEF HellosOf
    <2>4. hellos' \in Seq(HellosOf(version))
      BY <1>2, <2>1, <2>3, AppendProperties
    <2>5. identity' \in {Starting(version, m) : m \in U16}
      BY <1>2, <2>2, BuildKept
    <2> QED
      BY <2>4, <2>5 DEF OneBuild
  <1> QED
    BY <1>1, <1>2 DEF EmitHello

LEMMA InitOneBuild == IdentityInit => OneBuild
  <1> SUFFICES ASSUME IdentityInit PROVE OneBuild
    OBVIOUS
  <1>1. PICK version \in Firmware, n \in InitialSequences :
          identity = Starting(version, n)
    BY DEF IdentityInit
  <1>2. n \in U16
    <2>1. n \in Nat /\ n < 65536
      BY IdentityAssumption
    <2> QED
      BY <2>1 DEF U16
  <1>3. hellos \in Seq(HellosOf(version))
    BY EmptySeq DEF IdentityInit
  <1> QED
    BY <1>1, <1>2, <1>3 DEF OneBuild

LEMMA OneBuildReadable == OneBuild => HellosReadable
  <1> SUFFICES ASSUME OneBuild, NEW i \in DOMAIN hellos
               PROVE  ReadBack(hellos[i], identity)
    BY DEF HellosReadable, ReadBack, HelloMessage, Message
  <1>1. PICK version \in Firmware :
          /\ identity \in {Starting(version, n) : n \in U16}
          /\ hellos \in Seq(HellosOf(version))
    BY DEF OneBuild
  <1>2. PICK m \in U16 : identity = Starting(version, m)
    BY <1>1
  <1>3. hellos[i] \in HellosOf(version)
    BY <1>1, LenProperties, ElementOfSeq
  <1>4. PICK n \in U16 : hellos[i] = HelloFrame(Starting(version, n))
    BY <1>3 DEF HellosOf
  <1>5. HelloMessage(Starting(version, n)) = HelloMessage(identity)
    BY <1>2 DEF HelloMessage, Starting
  <1>6. ReadBack(hellos[i], Starting(version, n))
    BY <1>4, BuildKept, HelloReadBack
  <1> QED
    BY <1>5, <1>6 DEF ReadBack

\* HellosReadable for every build and every geometry with room for a hello.
THEOREM EveryHelloReadable == IdentitySpec => []HellosReadable
  <1>1. OneBuild /\ [IdentityNext]_identityVars => OneBuild'
    <2> SUFFICES ASSUME OneBuild, [IdentityNext]_identityVars
                 PROVE  OneBuild'
      OBVIOUS
    <2>1. ASSUME UNCHANGED identityVars PROVE OneBuild'
      BY <2>1 DEF OneBuild, identityVars
    <2>2. CASE Announce
      BY <2>2, EmitOneBuild DEF Announce
    <2>3. CASE Consume
      <3>1. PICK capacity, message : HandleMessage(message, capacity)
        BY <2>3 DEF Consume
      <3> QED
        BY <2>1, <3>1, EmitOneBuild DEF HandleMessage
    <2> QED
      BY <2>1, <2>2, <2>3 DEF IdentityNext
  <1> QED
    BY InitOneBuild, <1>1, OneBuildReadable, PTL DEF IdentitySpec
=============================================================================
