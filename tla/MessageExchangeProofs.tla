----------------------- MODULE MessageExchangeProofs ------------------------
(***************************************************************************)
(* What holds of the message codec for every value of every field, every   *)
(* payload and whatever the encoder's buffer held before.                  *)
(***************************************************************************)
EXTENDS MessageExchange, CodecProofs

Sendable ==
  /\ sent.type \in DOMAIN PayloadSize
  /\ Holdable(sent)
  /\ ValidateResult(sent) = "OK"
  /\ \E before : payload = BytesWritten(sent, before)

ExchangeInv ==
  /\ stage \in {"encoded", "travelling", "decoded"} => Sendable
  /\ stage \in {"travelling", "decoded"} =>
       /\ wire[2] \in Seq(Octet)
       /\ intact => wire = <<sent.type, payload>>
  /\ stage = "decoded" =>
       /\ typed = DecodePayload(wire[1], wire[2]).message
       /\ decodeResult = DecodePayload(wire[1], wire[2]).result

LEMMA InitExchangeInv == Init => ExchangeInv
  BY DEF Init, ExchangeInv

LEMMA StepExchangeInv == ExchangeInv /\ [Next]_vars => ExchangeInv'
  <1> SUFFICES ASSUME ExchangeInv, [Next]_vars
               PROVE  ExchangeInv'
    OBVIOUS
  <1>1. CASE Encode
    <2>1. PICK message \in Messages, capacity \in Capacities, old \in OldBytes :
            /\ sent' = message
            /\ payload' = IF EncodeResult(message, capacity) = "OK"
                          THEN BytesWritten(message, [i \in 1..capacity |-> old])
                          ELSE <<>>
            /\ stage' = IF EncodeResult(message, capacity) = "OK"
                        THEN "encoded" ELSE "refused"
      BY <1>1 DEF Encode
    <2>2. CASE EncodeResult(message, capacity) = "OK"
      <3>1. ValidateResult(message) = "OK"
        BY <2>2 DEF EncodeResult
      <3>2. message.type \in DOMAIN PayloadSize
        BY <3>1, SizedTypes DEF ValidateResult
      <3>3. Holdable(message)
        BY ExchangeAssumption
      <3>4. Sendable'
        BY <2>1, <2>2, <3>1, <3>2, <3>3 DEF Sendable
      <3> QED
        BY <2>1, <2>2, <3>4 DEF ExchangeInv
    <2>3. CASE EncodeResult(message, capacity) # "OK"
      BY <2>1, <2>3 DEF ExchangeInv
    <2> QED
      BY <2>2, <2>3
  <1>2. CASE Travel
    <2>1. /\ stage = "encoded" /\ stage' = "travelling"
          /\ wire'[2] \in Seq(Octet)
          /\ intact' => wire' = <<sent.type, payload>>
          /\ UNCHANGED <<sent, payload>>
      BY <1>2 DEF Travel
    <2> QED
      BY <2>1 DEF ExchangeInv, Sendable
  <1>3. CASE Decode
    <2>1. /\ stage = "travelling" /\ stage' = "decoded"
          /\ typed' = DecodePayload(wire[1], wire[2]).message
          /\ decodeResult' = DecodePayload(wire[1], wire[2]).result
          /\ UNCHANGED <<sent, payload, intact, wire>>
      BY <1>3 DEF Decode
    <2> QED
      BY <2>1 DEF ExchangeInv, Sendable
  <1>4. CASE Forget
    BY <1>4 DEF Forget, ExchangeInv
  <1>5. CASE UNCHANGED vars
    BY <1>5 DEF vars, ExchangeInv, Sendable
  <1> QED
    BY <1>1, <1>2, <1>3, <1>4, <1>5 DEF Next

LEMMA ExchangeInvHolds == Spec => []ExchangeInv
  BY InitExchangeInv, StepExchangeInv, PTL DEF Spec

\* Whatever message the encoder accepts, and whatever its buffer held before,
\* the decoder accepts the payload and restores the message.
THEOREM EveryMessageRestored == Spec => []RoundTrip
  <1>1. ExchangeInv => RoundTrip
    <2> SUFFICES ASSUME ExchangeInv, stage = "decoded", intact
                 PROVE  decodeResult = "OK" /\ typed = sent
      BY DEF RoundTrip
    <2>1. Sendable /\ wire[1] = sent.type /\ wire[2] = payload
      BY DEF ExchangeInv
    <2>2. PICK before : payload = BytesWritten(sent, before)
      BY <2>1 DEF Sendable
    <2>3. Message(sent.type, FieldsRead(sent.type, payload)) = sent
      BY <2>1, <2>2, FieldsRestored DEF Sendable
    <2>4. Len(payload) = PayloadSize[sent.type]
      BY <2>1, <2>2, EncodedPayload DEF Sendable
    <2>5. /\ DecodePayload(sent.type, payload).result = "OK"
          /\ DecodePayload(sent.type, payload).message = sent
      BY <2>1, <2>3, <2>4, Decoded DEF Sendable
    <2> QED
      BY <2>1, <2>5 DEF ExchangeInv
  <1> QED
    BY <1>1, ExchangeInvHolds, PTL

\* No two payloads decode to the same message: what the decoder accepts, the
\* encoder would have written.
THEOREM OneEncoding == Spec => []AcceptedIsCanonical
  <1>1. ExchangeInv => AcceptedIsCanonical
    <2> SUFFICES ASSUME ExchangeInv, stage = "decoded", decodeResult = "OK"
                 PROVE  /\ EncodeResult(typed, Len(wire[2])) = "OK"
                        /\ BytesWritten(typed, [i \in 1..Len(wire[2]) |-> -1])
                             = wire[2]
      BY DEF AcceptedIsCanonical
    <2> DEFINE t == wire[1]
               p == wire[2]
    <2>1. /\ p \in Seq(Octet)
          /\ typed = DecodePayload(t, p).message /\ DecodePayload(t, p).result = "OK"
      BY DEF ExchangeInv
    <2>2. /\ t \in DOMAIN PayloadSize /\ Len(p) = PayloadSize[t]
          /\ typed = Message(t, FieldsRead(t, p)) /\ ValidateResult(typed) = "OK"
      BY <2>1, Decoded
    <2>3. typed.type = t /\ typed.values = FieldsRead(t, p)
      BY <2>2 DEF Message
    <2>4. EncodeResult(typed, Len(p)) = "OK"
      <3>1. Len(p) \in Nat
        BY <2>1, LenProperties
      <3> QED
        BY <2>2, <2>3, <3>1 DEF EncodeResult
    <2> DEFINE before == [i \in 1..Len(p) |-> -1]
    <2> HIDE DEF t, p, before
    <2>5. BytesWritten(typed, before) = p
      BY <2>1, <2>2, <2>3, PayloadRewritten
    <2> QED
      BY <2>4, <2>5 DEF p, before
  <1> QED
    BY <1>1, ExchangeInvHolds, PTL

\* A refused payload leaves nothing of itself in the typed output.
THEOREM NothingLeftOfRefused == Spec => []RejectedIsCleared
  <1>1. ExchangeInv => RejectedIsCleared
    BY Decoded DEF ExchangeInv, RejectedIsCleared
  <1> QED
    BY <1>1, ExchangeInvHolds, PTL

\* The limits of a drive command hold for the number its two's-complement
\* bytes stand for, whatever those bytes are.
THEOREM DriveAlwaysWithinLimits == Spec => []AcceptedDriveWithinLimits
  <1>1. ExchangeInv => AcceptedDriveWithinLimits
    <2> SUFFICES ASSUME ExchangeInv, stage = "decoded", decodeResult = "OK",
                        wire[1] = "DRIVE_SETPOINT"
                 PROVE  DriveWithinLimits(wire[2])
      BY DEF AcceptedDriveWithinLimits
    <2> DEFINE p == wire[2]
               v == FieldsRead("DRIVE_SETPOINT", p)
    <2>1. /\ p \in Seq(Octet)
          /\ DecodePayload("DRIVE_SETPOINT", p).result = "OK"
      BY DEF ExchangeInv
    <2>2. /\ Len(p) = PayloadSize["DRIVE_SETPOINT"]
          /\ ValidateResult(Message("DRIVE_SETPOINT", v)) = "OK"
      BY <2>1, Decoded
    <2>3. InRange("DRIVE_SETPOINT", v)
      BY <2>2 DEF ValidateResult, Message
    <2>4. /\ v[1] >= -500 /\ v[1] <= 500
          /\ v[2] >= -4000 /\ v[2] <= 4000
          /\ v[3] # 0 /\ v[3] <= 250
      BY <2>3 DEF InRange
    <2>5. Len(p) = 6
      BY <2>2 DEF PayloadSize
    <2>6. \A i \in 1..6 : p[i] \in Nat /\ p[i] <= 255
      BY <2>1, <2>5, ElementOfSeq, OctetIsSmall
    <2>7. /\ v[1] = ReadField("i16", p, 0)
          /\ v[2] = ReadField("i16", p, 2)
          /\ v[3] = ReadField("u16", p, 4)
      BY DEF FieldsRead, DecodeLayout
    <2>8. /\ v[1] = Signed16(p[1] + 256 * p[2])
          /\ v[2] = Signed16(p[3] + 256 * p[4])
          /\ v[3] = p[5] + 256 * p[6]
      <3>1. 0 + 1 = 1 /\ 0 + 2 = 2 /\ 2 + 1 = 3 /\ 2 + 2 = 4 /\ 4 + 1 = 5 /\ 4 + 2 = 6
        OBVIOUS
      <3>2. 0 \in Nat /\ 2 \in Nat /\ 4 \in Nat
        OBVIOUS
      <3> QED
        BY <2>7, <3>1, <3>2, FieldOfBytes
    <2> HIDE DEF p, v
    <2>9. ASSUME NEW i \in {1, 3}
          PROVE  Twos(p, i) = Signed16(p[i] + 256 * p[i + 1])
      <3> DEFINE n == p[i] + 256 * p[i + 1]
      <3>1. i \in 1..6 /\ i + 1 \in 1..6
        OBVIOUS
      <3>2. n \in Nat /\ n <= 65535
        BY <2>6, <3>1
      <3> HIDE DEF n
      <3>3. ((n + 32768) % 65536) - 32768 = Signed16(n)
        BY <3>2 DEF Signed16
      <3> QED
        BY <3>3 DEF Twos, n
    <2>10. Twos(p, 1) = v[1] /\ Twos(p, 3) = v[2]
      <3>1. 1 + 1 = 2 /\ 3 + 1 = 4
        OBVIOUS
      <3> QED
        BY <2>8, <2>9, <3>1
    <2>11. 1 <= v[3]
      <3>1. p[5] \in Nat /\ p[6] \in Nat
        BY <2>6
      <3>2. v[3] \in Nat
        BY <2>8, <3>1
      <3> QED
        BY <2>4, <3>2
    <2> QED
      BY <2>4, <2>8, <2>10, <2>11 DEF DriveWithinLimits, p
  <1> QED
    BY <1>1, ExchangeInvHolds, PTL
=============================================================================
