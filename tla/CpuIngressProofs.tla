-------------------------- MODULE CpuIngressProofs --------------------------
(***************************************************************************)
(* What holds of the ingress gate for every frame geometry, every CRC and  *)
(* every input: it runs the stream decoder unchanged, no frame the decoder *)
(* emits escapes its counters, and what the consumer gets is what the CPU  *)
(* meant.                                                                  *)
(***************************************************************************)
EXTENDS CpuIngress, CodecProofs, StreamDecoderProofs

\* Around its callback the gate leaves the decoder alone, so every theorem
\* about Spec holds of the decoder inside the gate.
THEOREM RunsTheDecoder == IngressSpec => Spec
  <1>1. IngressInit => Init
    BY DEF IngressInit
  <1>2. [IngressNext]_ingressVars => [Next]_vars
    BY DEF IngressNext, IngressFeed, IngressRead, IngressParse, IngressReset,
           ingressVars, Next
  <1> QED
    BY <1>1, <1>2, PTL DEF IngressSpec, Spec

------------------------------------------------------------------------------
(***************************************************************************)
(* The verdicts of validate_frame.                                         *)
(***************************************************************************)
Endpoint == {"CPU_TO_MCU", "BOTH"}

\* Every type the gate lets through to the codec has a defined payload.
LEMMA EndpointTypesDefined ==
  ASSUME NEW t, MessageDirection(t) # "UNKNOWN",
         MessageDirection(t) # "MCU_TO_CPU"
  PROVE  SizeResult(t) = "OK"
  <1>1. t \in {"HEARTBEAT", "ESTOP_SET", "CLEAR_LATCHED_FAULT",
               "IDENTIFY_REQUEST", "DRIVE_SETPOINT", "CLEANING_MOTORS_SET",
               "LIDAR_MOTOR_SET", "LED_SET", "ACK", "NACK"}
    BY DEF MessageDirection
  <1>2. t \in DOMAIN PayloadSize
    BY <1>1 DEF PayloadSize
  <1>3. t \notin {"POWER_TELEMETRY", "MCU_DIAGNOSTIC"}
    BY <1>1
  <1> QED
    BY <1>2, <1>3 DEF SizeResult

LEMMA DefinedVerdicts ==
  ASSUME NEW t, NEW p, SizeResult(t) = "OK"
  PROVE  DecodePayload(t, p).result
           \in {"OK", "WRONG_PAYLOAD_LENGTH", "VALUE_OUT_OF_RANGE"}
  <1> DEFINE message == Message(t, FieldsRead(t, p))
  <1>1. message.type = t
    BY DEF Message
  <1>2. ValidateResult(message) \in {"OK", "VALUE_OUT_OF_RANGE"}
    <2> HIDE DEF message
    <2> QED
      BY <1>1 DEF ValidateResult
  <1>3. CASE Len(p) # PayloadSize[t]
    BY <1>3 DEF DecodePayload
  <1>4. CASE Len(p) = PayloadSize[t] /\ ValidateResult(message) # "OK"
    BY <1>2, <1>4 DEF DecodePayload
  <1>5. CASE Len(p) = PayloadSize[t] /\ ValidateResult(message) = "OK"
    BY <1>5 DEF DecodePayload
  <1> QED
    BY <1>3, <1>4, <1>5

\* The refusals of a frame of the decoder's own version: all have a counter,
\* and the two counters of an internal error are not among them.
Verdicts == {"OK", "UNKNOWN_TYPE", "WRONG_DIRECTION", "WRONG_PAYLOAD_LENGTH",
             "VALUE_OUT_OF_RANGE"}

LEMMA FrameVerdicts ==
  ASSUME NEW frame, frame[3] = ProtocolVersion
  PROVE  ValidateFrame(frame).result \in Verdicts
  <1> DEFINE t == TypeNamed(TypeField(frame))
             decoded == DecodePayload(t, PayloadField(frame))
  <1>1. CASE MessageDirection(t) = "UNKNOWN"
    BY <1>1 DEF ValidateFrame, Verdicts
  <1>2. CASE MessageDirection(t) = "MCU_TO_CPU"
    BY <1>2 DEF ValidateFrame, Verdicts
  <1>3. CASE MessageDirection(t) \notin {"UNKNOWN", "MCU_TO_CPU"}
    <2>1. SizeResult(t) = "OK"
      BY <1>3, EndpointTypesDefined
    <2>2. decoded.result \in {"OK", "WRONG_PAYLOAD_LENGTH", "VALUE_OUT_OF_RANGE"}
      BY <2>1, DefinedVerdicts
    <2>3. decoded = [result |-> decoded.result, message |-> decoded.message]
      BY DEF DecodePayload
    <2>4. ValidateFrame(frame) = [decoded EXCEPT !.result = MapMessageResult(@)]
      BY <1>3 DEF ValidateFrame
    <2>5. ValidateFrame(frame).result = MapMessageResult(decoded.result)
      <3> HIDE DEF decoded
      <3> QED
        BY <2>3, <2>4
    <2> QED
      BY <2>2, <2>5 DEF MapMessageResult, Verdicts
  <1> QED
    BY <1>1, <1>2, <1>3

------------------------------------------------------------------------------
(***************************************************************************)
(* The decoder's frames, and the callback's.                               *)
(***************************************************************************)

\* A frame the decoder hands to the callback has its own protocol version.
LEMMA EmittedVersion ==
  ASSUME EmitFrame
  PROVE  Candidate[3] = ProtocolVersion
  BY DEF EmitFrame, DecodeResult

\* The decoder's `frames` counter moves with the callback and only then.
LEMMA FramesCounted ==
  ASSUME TypeInv, Next
  PROVE  \/ delivered' = delivered /\ stats'.frames = stats.frames
         \/ /\ delivered' # delivered
            /\ EmitFrame
            /\ stats'.frames = Plus(stats.frames, 1)
  <1>1. /\ TypeOK
        /\ stats \in CounterRecords
        /\ delivered \in Seq(Seq(Byte))
    BY DEF TypeInv, TypeOK, CounterRecords
  <1>2. "frames" \in Counters \ {"discarded_bytes"}
    BY DEF Counters
  <1>3. CASE Feed
    BY <1>3 DEF Feed
  <1>4. CASE ReadByte
    BY <1>1, <1>2, <1>4 DEF ReadByte, CounterRecords
  <1>5. CASE GapReset
    BY <1>1, <1>2, <1>5 DEF GapReset, Count, CounterRecords
  <1>6. CASE Parse
    <2>1. ASSUME NEW st \in CounterRecords, Resync(st), Len(buffer) >= 2,
                 st.frames = stats.frames
          PROVE  stats'.frames = stats.frames
      BY <1>1, <1>2, <2>1, ResyncEffect
    <2>2. ASSUME NEW c \in {"version_errors", "length_errors", "crc_errors"}
          PROVE  /\ Count(stats, c) \in CounterRecords
                 /\ Count(stats, c).frames = stats.frames
      <3>1. c \in Counters /\ c # "frames"
        BY DEF Counters
      <3>2. Count(stats, c) \in CounterRecords
        BY <1>1, <3>1, CountTyped DEF CounterRecords
      <3> QED
        BY <1>1, <1>2, <3>1, <3>2 DEF Count, CounterRecords
    <2>3. HeaderRead => Len(buffer) >= 2
      BY <1>1, LenProperties, WireAssumption DEF HeaderRead, TypeOK
    <2>4. CASE DropStrayByte
      <3>1. 1 \in 0..Len(buffer)
        BY <2>4 DEF DropStrayByte
      <3> QED
        BY <1>1, <1>2, <2>4, <3>1, DiscardEffect DEF DropStrayByte
    <2>5. CASE AwaitMore
      BY <2>5 DEF AwaitMore
    <2>6. CASE RejectMagic
      BY <1>1, <2>1, <2>6 DEF RejectMagic
    <2>7. CASE RejectVersion
      BY <2>1, <2>2, <2>3, <2>7 DEF RejectVersion
    <2>8. CASE RejectLength
      BY <2>1, <2>2, <2>3, <2>8 DEF RejectLength, LengthRead
    <2>9. CASE RejectFrame
      BY <2>1, <2>2, <2>3, <2>9
         DEF RejectFrame, FrameRead, FrameComplete, FramePlausible, LengthRead
    <2>10. CASE EmitFrame
      <3>1. /\ FrameLength(buffer) \in 1..Len(buffer)
            /\ buffer \in Seq(Byte)
        <4>1. Len(buffer) >= HeaderSize /\ Len(buffer) >= FrameLength(buffer)
          BY <2>10 DEF EmitFrame, FrameRead, FrameComplete, FramePlausible, LengthRead, HeaderRead
        <4> QED
          BY <1>1, <4>1, FrameLengthBounds, LenProperties, WireAssumption
             DEF TypeOK
      <3>2. Candidate \in Seq(Byte)
        BY <3>1, SubSeqProperties DEF Candidate
      <3>3. Append(delivered, Candidate) # delivered
        BY <1>1, <3>2, AppendProperties, LenProperties
      <3> QED
        BY <1>1, <1>2, <2>10, <3>3 DEF EmitFrame, Count, CounterRecords
    <2> QED
      BY <1>6, <2>4, <2>5, <2>6, <2>7, <2>8, <2>9, <2>10 DEF Parse
  <1> QED
    BY <1>3, <1>4, <1>5, <1>6 DEF Next

------------------------------------------------------------------------------
(***************************************************************************)
(* The balance of the counters.                                            *)
(***************************************************************************)
IngressTyped == ingress \in [IngressCounters -> 0..(CounterMod - 1)]

\* The counter one emitted frame moves.
CounterOf ==
  {"accepted_messages", "wrong_direction", "unknown_type",
   "wrong_payload_length", "value_out_of_range"}

LEMMA HandleFrameCounts ==
  ASSUME IngressTyped, NEW frame, frame[3] = ProtocolVersion, HandleFrame(frame)
  PROVE  \E c \in CounterOf : ingress' = Count(ingress, c)
  <1>1. CASE ValidateFrame(frame).result = "OK"
    BY <1>1 DEF HandleFrame, CounterOf
  <1>2. CASE ValidateFrame(frame).result # "OK"
    <2> DEFINE result == ValidateFrame(frame).result
    <2>1. result \in Verdicts \ {"OK"}
      BY <1>2, FrameVerdicts
    <2>2. ingress' = CountRejection(ingress, result)
      BY <1>2 DEF HandleFrame
    <2> HIDE DEF result
    <2>3. \/ CountRejection(ingress, result) = Count(ingress, "wrong_direction")
          \/ CountRejection(ingress, result) = Count(ingress, "unknown_type")
          \/ CountRejection(ingress, result) = Count(ingress, "wrong_payload_length")
          \/ CountRejection(ingress, result) = Count(ingress, "value_out_of_range")
      BY <2>1 DEF CountRejection, Verdicts
    <2> QED
      BY <2>2, <2>3 DEF CounterOf
  <1> QED
    BY <1>1, <1>2

\* Counting one more among numbers that are summed.
LEMMA SumPlus ==
  ASSUME NEW rest \in Nat, NEW c \in Nat
  PROVE  (Plus(c, 1) + rest) % CounterMod = Plus((c + rest) % CounterMod, 1)
  <1> DEFINE m == CounterMod
  <1>1. m \in Nat \ {0}
    BY DecoderAssumption
  <1>2. \A a, k \in Nat : ((a % m) + k) % m = (a + k) % m
    <2> HIDE DEF m
    <2> QED
      BY <1>1, ModPlus
  <1>3. c + 1 \in Nat /\ c + rest \in Nat /\ 1 \in Nat
    OBVIOUS
  <1>4. (((c + 1) % m) + rest) % m = (c + 1 + rest) % m
    BY <1>2, <1>3, Zenon
  <1>5. (((c + rest) % m) + 1) % m = (c + rest + 1) % m
    BY <1>2, <1>3, Zenon
  <1>6. c + 1 + rest = c + rest + 1
    OBVIOUS
  <1> QED
    BY <1>4, <1>5, <1>6 DEF Plus

\* The sum of the gate's counters, and what counting one more does to it.
Total(st) ==
  st.accepted_messages + st.wrong_direction + st.unknown_type
    + st.undefined_payload + st.wrong_payload_length
    + st.value_out_of_range + st.codec_errors

LEMMA CountAddsOne ==
  ASSUME NEW st \in [IngressCounters -> 0..(CounterMod - 1)], NEW c \in CounterOf
  PROVE  /\ Count(st, c) \in [IngressCounters -> 0..(CounterMod - 1)]
         /\ Total(Count(st, c)) % CounterMod = Plus(Total(st) % CounterMod, 1)
  <1> DEFINE next == Count(st, c)
  <1>1. /\ \A d \in IngressCounters : st[d] \in Nat
        /\ c \in IngressCounters
    BY DecoderAssumption DEF IngressCounters, Rejections, CounterOf
  <1>2. Plus(st[c], 1) \in 0..(CounterMod - 1) /\ Plus(st[c], 1) \in Nat
    BY <1>1, PlusInRange, DecoderAssumption
  <1>3. next = [st EXCEPT ![c] = Plus(st[c], 1)]
    BY DEF Count
  <1>4. /\ next \in [IngressCounters -> 0..(CounterMod - 1)]
        /\ next[c] = Plus(st[c], 1)
        /\ \A d \in IngressCounters \ {c} : next[d] = st[d]
    BY <1>1, <1>2, <1>3
  <1>5. PICK rest \in Nat : /\ Total(st) = st[c] + rest
                            /\ Total(next) = Plus(st[c], 1) + rest
    <2> HIDE DEF next
    <2>1. CASE c = "accepted_messages"
      <3> DEFINE r == st.wrong_direction + st.unknown_type
                        + st.undefined_payload + st.wrong_payload_length
                        + st.value_out_of_range + st.codec_errors
      <3>1. /\ r \in Nat
            /\ Total(st) = st[c] + r
            /\ Total(next) = Plus(st[c], 1) + r
        BY <1>1, <1>2, <1>4, <2>1 DEF Total, IngressCounters, Rejections
      <3> HIDE DEF r
      <3> QED
        BY <3>1
    <2>2. CASE c = "wrong_direction"
      <3> DEFINE r == st.accepted_messages + st.unknown_type
                        + st.undefined_payload + st.wrong_payload_length
                        + st.value_out_of_range + st.codec_errors
      <3>1. /\ r \in Nat
            /\ Total(st) = st[c] + r
            /\ Total(next) = Plus(st[c], 1) + r
        BY <1>1, <1>2, <1>4, <2>2 DEF Total, IngressCounters, Rejections
      <3> HIDE DEF r
      <3> QED
        BY <3>1
    <2>3. CASE c = "unknown_type"
      <3> DEFINE r == st.accepted_messages + st.wrong_direction
                        + st.undefined_payload + st.wrong_payload_length
                        + st.value_out_of_range + st.codec_errors
      <3>1. /\ r \in Nat
            /\ Total(st) = st[c] + r
            /\ Total(next) = Plus(st[c], 1) + r
        BY <1>1, <1>2, <1>4, <2>3 DEF Total, IngressCounters, Rejections
      <3> HIDE DEF r
      <3> QED
        BY <3>1
    <2>4. CASE c = "wrong_payload_length"
      <3> DEFINE r == st.accepted_messages + st.wrong_direction
                        + st.unknown_type + st.undefined_payload
                        + st.value_out_of_range + st.codec_errors
      <3>1. /\ r \in Nat
            /\ Total(st) = st[c] + r
            /\ Total(next) = Plus(st[c], 1) + r
        BY <1>1, <1>2, <1>4, <2>4 DEF Total, IngressCounters, Rejections
      <3> HIDE DEF r
      <3> QED
        BY <3>1
    <2>5. CASE c = "value_out_of_range"
      <3> DEFINE r == st.accepted_messages + st.wrong_direction
                        + st.unknown_type + st.undefined_payload
                        + st.wrong_payload_length + st.codec_errors
      <3>1. /\ r \in Nat
            /\ Total(st) = st[c] + r
            /\ Total(next) = Plus(st[c], 1) + r
        BY <1>1, <1>2, <1>4, <2>5 DEF Total, IngressCounters, Rejections
      <3> HIDE DEF r
      <3> QED
        BY <3>1
    <2> QED
      BY <2>1, <2>2, <2>3, <2>4, <2>5 DEF CounterOf
  <1>6. (Plus(st[c], 1) + rest) % CounterMod
          = Plus((st[c] + rest) % CounterMod, 1)
    BY <1>1, SumPlus
  <1> HIDE DEF next
  <1>7. Total(next) % CounterMod = Plus(Total(st) % CounterMod, 1)
    BY <1>5, <1>6
  <1> QED
    BY <1>4, <1>7 DEF next

\* The inductive invariant: the balance rests on the decoder's own invariant
\* (which fixes the version of an emitted frame and the type of its counters).
IngressInv == TypeInv /\ IngressTyped /\ UnreachableRejections /\ IngressBalance

LEMMA EmitKeepsBalance ==
  ASSUME IngressInv, NEW c \in CounterOf, ingress' = Count(ingress, c),
         stats'.frames = Plus(stats.frames, 1)
  PROVE  IngressTyped' /\ UnreachableRejections' /\ IngressBalance'
  <1>1. ingress \in [IngressCounters -> 0..(CounterMod - 1)]
    BY DEF IngressInv, IngressTyped
  <1>2. /\ Count(ingress, c) \in [IngressCounters -> 0..(CounterMod - 1)]
        /\ Total(Count(ingress, c)) % CounterMod
             = Plus(Total(ingress) % CounterMod, 1)
    BY <1>1, CountAddsOne
  <1>3. Total(ingress) % CounterMod = stats.frames
    BY DEF IngressInv, IngressBalance, Total
  <1>4. Total(ingress') % CounterMod = stats'.frames
    BY <1>2, <1>3
  <1>5. UnreachableRejections'
    BY <1>1 DEF IngressInv, UnreachableRejections, Count, CounterOf,
                IngressCounters, Rejections
  <1> QED
    BY <1>2, <1>4, <1>5 DEF IngressTyped, IngressBalance, Total

LEMMA StepIngressInv == IngressInv /\ [IngressNext]_ingressVars => IngressInv'
  <1> SUFFICES ASSUME IngressInv, [IngressNext]_ingressVars
               PROVE  IngressInv'
    OBVIOUS
  <1>1. [Next]_vars
    BY DEF IngressNext, IngressFeed, IngressRead, IngressParse, IngressReset,
           ingressVars, Next
  <1>2. TypeInv'
    BY <1>1, StepTypeInv DEF IngressInv
  <1>3. ASSUME ingress' = ingress, stats'.frames = stats.frames
        PROVE  IngressTyped' /\ UnreachableRejections' /\ IngressBalance'
    BY <1>3 DEF IngressInv, IngressTyped, UnreachableRejections, IngressBalance
  <1>4. CASE UNCHANGED ingressVars
    BY <1>2, <1>3, <1>4 DEF IngressInv, ingressVars, vars
  <1>5. CASE IngressFeed
    BY <1>2, <1>3, <1>5 DEF IngressInv, IngressFeed, Feed
  <1>6. CASE IngressRead
    <2>1. delivered' = delivered /\ ingress' = ingress /\ Next
      BY <1>6 DEF IngressRead, ReadByte, Next
    <2> QED
      BY <1>2, <1>3, <2>1, FramesCounted DEF IngressInv
  <1>7. CASE IngressReset
    <2>1. delivered' = delivered /\ ingress' = ingress /\ Next
      BY <1>7 DEF IngressReset, GapReset, Next
    <2> QED
      BY <1>2, <1>3, <2>1, FramesCounted DEF IngressInv
  <1>8. CASE IngressParse
    <2>1. Next
      BY <1>8 DEF IngressParse, Next
    <2>2. CASE delivered' = delivered
      <3>1. ingress' = ingress
        BY <1>8, <2>2 DEF IngressParse
      <3> QED
        BY <1>2, <1>3, <2>1, <2>2, <3>1, FramesCounted DEF IngressInv
    <2>3. CASE delivered' # delivered
      <3>1. HandleFrame(Candidate)
        BY <1>8, <2>3 DEF IngressParse
      <3>2. EmitFrame /\ stats'.frames = Plus(stats.frames, 1)
        BY <2>1, <2>3, FramesCounted DEF IngressInv
      <3>3. PICK c \in CounterOf : ingress' = Count(ingress, c)
        BY <3>1, <3>2, EmittedVersion, HandleFrameCounts DEF IngressInv
      <3> QED
        BY <1>2, <3>2, <3>3, EmitKeepsBalance DEF IngressInv
    <2> QED
      BY <2>2, <2>3
  <1> QED
    BY <1>4, <1>5, <1>6, <1>7, <1>8 DEF IngressNext

LEMMA InitIngressInv == IngressInit => IngressInv
  <1> SUFFICES ASSUME IngressInit
               PROVE  IngressInv
    OBVIOUS
  <1>1. TypeInv
    BY InitTypeInv DEF IngressInit
  <1>2. ingress = [c \in IngressCounters |-> 0] /\ stats.frames = 0
    BY DEF IngressInit, Init, Counters
  <1>3. IngressTyped /\ UnreachableRejections
    BY <1>2, DecoderAssumption
       DEF IngressTyped, UnreachableRejections, IngressCounters, Rejections
  <1>4. IngressBalance
    <2>1. 0 % CounterMod = 0
      BY DecoderAssumption
    <2>2. \A c \in IngressCounters : ingress[c] = 0
      BY <1>2
    <2> QED
      BY <1>2, <2>1, <2>2 DEF IngressBalance, IngressCounters, Rejections
  <1> QED
    BY <1>1, <1>3, <1>4 DEF IngressInv

\* Every frame the decoder counts is accepted or refused under exactly one
\* counter of the gate, for any traffic and any width of the counters.
THEOREM EveryFrameAccounted == IngressSpec => []IngressBalance
  <1>1. IngressInv => IngressBalance
    BY DEF IngressInv
  <1> QED
    BY InitIngressInv, StepIngressInv, <1>1, PTL DEF IngressSpec

\* No traffic moves the counters of an undefined payload or of an internal
\* codec error: the direction test stops the open payloads first.
THEOREM DeadCounters == IngressSpec => []UnreachableRejections
  <1>1. IngressInv => UnreachableRejections
    BY DEF IngressInv, UnreachableRejections
  <1> QED
    BY InitIngressInv, StepIngressInv, <1>1, PTL DEF IngressSpec

------------------------------------------------------------------------------
(***************************************************************************)
(* What the consumer is called with.                                       *)
(***************************************************************************)
CommandFrames ==
  {frame \in Seq(Byte) : /\ Len(frame) >= HeaderSize + CrcSize
                         /\ ValidateFrame(frame).result = "OK"}

CallFor(frame) == [frame |-> frame, message |-> ValidateFrame(frame).message]

Calls == {CallFor(frame) : frame \in CommandFrames}

LEMMA NamedType ==
  ASSUME NEW code, MessageDirection(TypeNamed(code)) # "UNKNOWN"
  PROVE  TypeCode[TypeNamed(code)] = code
  <1>1. MessageDirection("UNKNOWN") = "UNKNOWN"
    BY DEF MessageDirection
  <1>2. PICK t \in DOMAIN TypeCode : TypeCode[t] = code
    BY <1>1 DEF TypeNamed
  <1> QED
    BY <1>2 DEF TypeNamed

\* The payload of a command is made of octets.
LEMMA PayloadOctets ==
  ASSUME NEW frame \in CommandFrames
  PROVE  PayloadField(frame) \in Seq(Octet)
  <1>1. /\ frame \in Seq(Byte) /\ Len(frame) \in Nat
        /\ Len(frame) >= HeaderSize + CrcSize
        /\ HeaderSize \in Nat /\ CrcSize \in Nat
    BY LenProperties, WireAssumption DEF CommandFrames
  <1>2. \A i \in (HeaderSize + 1)..(Len(frame) - CrcSize) : frame[i] \in Octet
    <2>1. \A i \in 1..Len(frame) : frame[i] \in Byte
      BY <1>1, ElementOfSeq
    <2>2. \A i \in (HeaderSize + 1)..(Len(frame) - CrcSize) : i \in 1..Len(frame)
      BY <1>1
    <2> QED
      BY <2>1, <2>2, IngressAssumption
  <1> QED
    BY <1>1, <1>2, SubSeqProperties DEF PayloadField

\* Whatever passes validate_frame is a command, and nothing is lost on the way
\* from its payload to the typed message.
LEMMA CommandGenuine ==
  ASSUME NEW frame \in CommandFrames
  PROVE  LET message == CallFor(frame).message
             payload == PayloadField(frame)
         IN  /\ MessageDirection(message.type) \in Endpoint
             /\ TypeCode[message.type] = TypeField(frame)
             /\ EncodeResult(message, Len(payload)) = "OK"
             /\ BytesWritten(message, payload) = payload
  <1> DEFINE t == TypeNamed(TypeField(frame))
             p == PayloadField(frame)
             decoded == DecodePayload(t, p)
             message == Message(t, FieldsRead(t, p))
  <1>1. ValidateFrame(frame).result = "OK"
    BY DEF CommandFrames
  <1>2. /\ MessageDirection(t) # "UNKNOWN" /\ MessageDirection(t) # "MCU_TO_CPU"
        /\ ValidateFrame(frame) = [decoded EXCEPT !.result = MapMessageResult(@)]
    BY <1>1 DEF ValidateFrame
  <1>3. MessageDirection(t) \in Endpoint /\ TypeCode[t] = TypeField(frame)
    <2>1. MessageDirection(t) \in Endpoint
      BY <1>2 DEF MessageDirection, Endpoint
    <2> QED
      BY <1>2, <2>1, NamedType
  <1>4. decoded = [result |-> decoded.result, message |-> decoded.message]
    BY DEF DecodePayload
  <1>5. decoded.result = "OK" /\ ValidateFrame(frame).message = decoded.message
    <2> HIDE DEF decoded
    <2>1. /\ ValidateFrame(frame).result = MapMessageResult(decoded.result)
          /\ ValidateFrame(frame).message = decoded.message
      BY <1>2, <1>4
    <2> QED
      BY <1>1, <2>1 DEF MapMessageResult
  <1>6. /\ t \in DOMAIN PayloadSize /\ Len(p) = PayloadSize[t]
        /\ ValidateResult(message) = "OK" /\ decoded.message = message
    BY <1>5, Decoded
  <1>7. p \in Seq(Octet)
    BY PayloadOctets
  <1>8. message.type = t /\ message.values = FieldsRead(t, p)
    BY DEF Message
  <1>9. CallFor(frame).message = message
    BY <1>5, <1>6 DEF CallFor
  <1> HIDE DEF decoded, message, t, p
  <1>10. BytesWritten(message, p) = p
    BY <1>6, <1>7, <1>8, PayloadRewritten
  <1>11. EncodeResult(message, Len(p)) = "OK"
    <2>1. Len(p) \in Nat
      BY <1>7, LenProperties
    <2> QED
      BY <1>6, <1>8, <2>1 DEF EncodeResult
  <1> QED
    BY <1>3, <1>8, <1>9, <1>10, <1>11 DEF p

\* A frame the decoder hands to the callback is long enough to be taken apart.
LEMMA EmittedFrame ==
  ASSUME TypeInv, EmitFrame
  PROVE  Candidate \in Seq(Byte) /\ Len(Candidate) >= HeaderSize + CrcSize
  <1>1. buffer \in Seq(Byte)
    BY DEF TypeInv, TypeOK
  <1>2. Len(buffer) >= HeaderSize /\ Len(buffer) >= FrameLength(buffer)
    BY DEF EmitFrame, FrameRead, FrameComplete, FramePlausible, LengthRead, HeaderRead
  <1>3. /\ FrameLength(buffer) \in Nat /\ FrameLength(buffer) >= HeaderSize + CrcSize
        /\ FrameLength(buffer) \in 1..Len(buffer)
    BY <1>1, <1>2, FrameLengthBounds, LenProperties, WireAssumption
  <1>4. /\ SubSeq(buffer, 1, FrameLength(buffer)) \in Seq(Byte)
        /\ Len(SubSeq(buffer, 1, FrameLength(buffer))) = FrameLength(buffer)
    BY <1>1, <1>3, LenProperties, SubSeqProperties
  <1> QED
    BY <1>3, <1>4 DEF Candidate

CallsInv == TypeInv /\ dispatched \in Seq(Calls)

LEMMA StepCalls == CallsInv /\ [IngressNext]_ingressVars => CallsInv'
  <1> SUFFICES ASSUME CallsInv, [IngressNext]_ingressVars
               PROVE  CallsInv'
    OBVIOUS
  <1>1. [Next]_vars
    BY DEF IngressNext, IngressFeed, IngressRead, IngressParse, IngressReset,
           ingressVars, Next
  <1>2. TypeInv'
    BY <1>1, StepTypeInv DEF CallsInv
  <1>3. CASE dispatched' = dispatched
    BY <1>2, <1>3 DEF CallsInv
  <1>4. CASE IngressParse /\ delivered' # delivered
    <2>1. HandleFrame(Candidate) /\ Next
      BY <1>4 DEF IngressParse, Next
    <2>2. EmitFrame
      BY <1>4, <2>1, FramesCounted DEF CallsInv
    <2>3. CASE ValidateFrame(Candidate).result = "OK"
      <3>1. Candidate \in CommandFrames
        BY <2>2, <2>3, EmittedFrame DEF CallsInv, CommandFrames
      <3>2. dispatched' = Append(dispatched, CallFor(Candidate))
        BY <2>1, <2>3 DEF HandleFrame, CallFor
      <3>3. CallFor(Candidate) \in Calls
        BY <3>1 DEF Calls
      <3> QED
        BY <1>2, <3>2, <3>3, AppendProperties DEF CallsInv
    <2>4. CASE ValidateFrame(Candidate).result # "OK"
      BY <1>3, <2>1, <2>4 DEF HandleFrame
    <2> QED
      BY <2>3, <2>4
  <1> QED
    BY <1>3, <1>4 DEF IngressNext, IngressFeed, IngressRead, IngressParse,
                      IngressReset, ingressVars

LEMMA CallsGenuine == CallsInv => DispatchedIsGenuine
  <1> SUFFICES ASSUME CallsInv, NEW i \in DOMAIN dispatched
               PROVE  LET message == dispatched[i].message
                          payload == PayloadField(dispatched[i].frame)
                      IN  /\ MessageDirection(message.type) \in Endpoint
                          /\ TypeCode[message.type] = TypeField(dispatched[i].frame)
                          /\ EncodeResult(message, Len(payload)) = "OK"
                          /\ BytesWritten(message, payload) = payload
    BY DEF DispatchedIsGenuine, Endpoint
  <1>1. dispatched \in Seq(Calls)
    BY DEF CallsInv
  <1>2. dispatched[i] \in Calls
    BY <1>1, LenProperties, ElementOfSeq
  <1>3. PICK frame \in CommandFrames : dispatched[i] = CallFor(frame)
    BY <1>2 DEF Calls
  <1>4. dispatched[i].frame = frame
    BY <1>3 DEF CallFor
  <1> QED
    BY <1>3, <1>4, CommandGenuine

\* The consumer is only ever called with commands, and with the values their
\* frames carried: for every geometry, every CRC and any traffic.
THEOREM CommandsAreGenuine == IngressSpec => []DispatchedIsGenuine
  <1>1. IngressInit => CallsInv
    <2>1. IngressInit => dispatched \in Seq(Calls)
      BY EmptySeq DEF IngressInit
    <2> QED
      BY <2>1, InitTypeInv DEF IngressInit, CallsInv
  <1> QED
    BY <1>1, StepCalls, CallsGenuine, PTL DEF IngressSpec

------------------------------------------------------------------------------
(***************************************************************************)
(* The other direction: no command is lost between the frame and the       *)
(* consumer.                                                               *)
(***************************************************************************)

\* validate_frame accepts exactly the frames that carry a command.
LEMMA AcceptsCommands ==
  ASSUME NEW frame, frame[3] = ProtocolVersion
  PROVE  ValidateFrame(frame).result = "OK" <=> IsCommand(frame)
  <1> DEFINE t == TypeNamed(TypeField(frame))
             p == PayloadField(frame)
             decoded == DecodePayload(t, p)
             message == Message(t, FieldsRead(t, p))
             towardsMcu == MessageDirection(t) \in {"CPU_TO_MCU", "BOTH"}
             lengthOk == Len(p) = PayloadSize[t]
             encodes == EncodeResult(message, Len(p)) = "OK"
  <1>1. IsCommand(frame) <=> towardsMcu /\ lengthOk /\ encodes
    BY DEF IsCommand
  <1>2. towardsMcu <=> MessageDirection(t) \notin {"UNKNOWN", "MCU_TO_CPU"}
    BY DEF MessageDirection
  <1>3. decoded = [result |-> decoded.result, message |-> decoded.message]
    BY DEF DecodePayload
  <1>4. message.type = t
    BY DEF Message
  <1>5. decoded.result = "OK" <=>
          t \in DOMAIN PayloadSize /\ lengthOk /\ ValidateResult(message) = "OK"
    BY Decoded
  <1> HIDE DEF t, p, decoded, message
  <1>6. CASE ~ towardsMcu
    <2>1. ValidateFrame(frame).result # "OK"
      BY <1>2, <1>6 DEF ValidateFrame, t
    <2> QED
      BY <1>1, <1>6, <2>1
  <1>7. CASE towardsMcu
    <2>1. ValidateFrame(frame) = [decoded EXCEPT !.result = MapMessageResult(@)]
      BY <1>2, <1>7 DEF ValidateFrame, t, decoded, p
    <2>2. ValidateFrame(frame).result = MapMessageResult(decoded.result)
      BY <1>3, <2>1
    <2>3. ValidateFrame(frame).result = "OK" <=> decoded.result = "OK"
      BY <2>2 DEF MapMessageResult
    <2>4. t \in DOMAIN PayloadSize /\ PayloadSize[t] \in Nat
      <3>1. t \in DOMAIN PayloadSize
        BY <1>2, <1>7, EndpointTypesDefined, SizedTypes
      <3> QED
        BY <3>1 DEF PayloadSize
    <2>5. lengthOk => (encodes <=> ValidateResult(message) = "OK")
      BY <1>4, <2>4 DEF EncodeResult
    <2> QED
      BY <1>1, <1>5, <1>7, <2>3, <2>4, <2>5
  <1> QED
    BY <1>6, <1>7

\* The place of each call among the frames that came through.
Placed(calls, frames, place) ==
  /\ place \in [DOMAIN calls -> DOMAIN frames]
  /\ \A i, j \in DOMAIN calls : i < j => place[i] < place[j]
  /\ \A i \in DOMAIN calls : calls[i].frame = frames[place[i]]
  /\ {place[i] : i \in DOMAIN calls} = {n \in DOMAIN frames : IsCommand(frames[n])}

LEMMA PlacedMeans ==
  EveryCommandOnce <=> \E place : Placed(dispatched, delivered, place)
  BY DEF EveryCommandOnce, Placed

\* One frame more, and with it one call more if it is a command.
LEMMA AppendedAt ==
  ASSUME NEW S, NEW s \in Seq(S), NEW e \in S
  PROVE  /\ Append(s, e) \in Seq(S)
         /\ Len(s) \in Nat /\ DOMAIN s = 1..Len(s)
         /\ DOMAIN Append(s, e) = 1..(Len(s) + 1)
         /\ \A i \in 1..Len(s) : Append(s, e)[i] = s[i]
         /\ Append(s, e)[Len(s) + 1] = e
  BY AppendProperties, LenProperties

LEMMA PlaceKept ==
  ASSUME NEW C, NEW calls \in Seq(C), NEW F, NEW frames \in Seq(F), NEW frame \in F,
         NEW place, Placed(calls, frames, place), ~ IsCommand(frame)
  PROVE  Placed(calls, Append(frames, frame), place)
  <1> DEFINE more == Append(frames, frame)
             n == Len(frames)
  <1>1. /\ n \in Nat /\ DOMAIN frames = 1..n /\ DOMAIN more = 1..(n + 1)
        /\ \A k \in 1..n : more[k] = frames[k]
        /\ more[n + 1] = frame
    BY AppendedAt
  <1>2. place \in [DOMAIN calls -> 1..n]
    BY <1>1 DEF Placed
  <1> HIDE DEF more, n
  <1>3. place \in [DOMAIN calls -> DOMAIN more]
    BY <1>1, <1>2
  <1>4. \A i \in DOMAIN calls : calls[i].frame = more[place[i]]
    BY <1>1, <1>2 DEF Placed
  <1>5. {k \in DOMAIN more : IsCommand(more[k])} = {k \in DOMAIN frames : IsCommand(frames[k])}
    <2>1. \A k \in 1..(n + 1) : k \in 1..n \/ k = n + 1
      BY <1>1
    <2>2. \A k \in 1..n : k \in 1..(n + 1)
      BY <1>1
    <2>3. \A k \in 1..n : IsCommand(more[k]) <=> IsCommand(frames[k])
      BY <1>1
    <2>4. ~ IsCommand(more[n + 1])
      BY <1>1
    <2> QED
      BY <1>1, <2>1, <2>2, <2>3, <2>4
  <1> QED
    BY <1>3, <1>4, <1>5 DEF Placed, more

LEMMA PlaceAdded ==
  ASSUME NEW C, NEW calls \in Seq(C), NEW F, NEW frames \in Seq(F), NEW frame \in F,
         NEW call \in C, call.frame = frame,
         NEW place, Placed(calls, frames, place), IsCommand(frame)
  PROVE  \E further : Placed(Append(calls, call), Append(frames, frame), further)
  <1> DEFINE more == Append(frames, frame)
             n == Len(frames)
             called == Append(calls, call)
             m == Len(calls)
             further == [i \in 1..(m + 1) |-> IF i = m + 1 THEN n + 1 ELSE place[i]]
  <1>1. /\ n \in Nat /\ DOMAIN frames = 1..n /\ DOMAIN more = 1..(n + 1)
        /\ \A k \in 1..n : more[k] = frames[k]
        /\ more[n + 1] = frame
    BY AppendedAt
  <1>2. /\ m \in Nat /\ DOMAIN calls = 1..m /\ DOMAIN called = 1..(m + 1)
        /\ \A i \in 1..m : called[i] = calls[i]
        /\ called[m + 1] = call
    BY AppendedAt
  <1>3. /\ place \in [1..m -> 1..n]
        /\ \A i, j \in 1..m : i < j => place[i] < place[j]
        /\ \A i \in 1..m : calls[i].frame = frames[place[i]]
        /\ {place[i] : i \in 1..m} = {k \in 1..n : IsCommand(frames[k])}
    BY <1>1, <1>2 DEF Placed
  <1> HIDE DEF more, n, called, m
  <1>4. /\ \A i \in 1..m : i \in 1..(m + 1) /\ i # m + 1 /\ i < m + 1
        /\ m + 1 \in 1..(m + 1)
        /\ \A i \in 1..(m + 1) : i \in 1..m \/ i = m + 1
        /\ \A k \in 1..n : k \in 1..(n + 1) /\ k < n + 1 /\ ~(n + 1 < k)
        /\ n + 1 \in 1..(n + 1)
        /\ \A k \in 1..(n + 1) : k \in 1..n \/ k = n + 1
    BY <1>1, <1>2
  <1>5. /\ \A i \in 1..m : further[i] = place[i] /\ further[i] \in 1..n
        /\ further[m + 1] = n + 1
        /\ DOMAIN further = 1..(m + 1)
    BY <1>3, <1>4
  <1>fun. further = [i \in 1..(m + 1) |-> further[i]]
    OBVIOUS
  <1> HIDE DEF further
  <1>6. further \in [DOMAIN called -> DOMAIN more]
    <2>1. \A i \in 1..(m + 1) : further[i] \in 1..(n + 1)
      BY <1>4, <1>5
    <2> QED
      BY <1>1, <1>2, <1>fun, <2>1
  <1>7. \A i, j \in DOMAIN called : i < j => further[i] < further[j]
    <2> SUFFICES ASSUME NEW i \in 1..(m + 1), NEW j \in 1..(m + 1), i < j
                 PROVE  further[i] < further[j]
      BY <1>2
    <2>1. i \in 1..m
      BY <1>2
    <2>2. CASE j \in 1..m
      BY <1>3, <1>5, <2>1, <2>2
    <2>3. CASE j = m + 1
      BY <1>4, <1>5, <2>1, <2>3
    <2> QED
      BY <1>4, <2>2, <2>3
  <1>8. \A i \in DOMAIN called : called[i].frame = more[further[i]]
    <2>1. ASSUME NEW i \in 1..m
          PROVE  called[i].frame = more[further[i]]
      <3>1. called[i] = calls[i] /\ further[i] = place[i] /\ place[i] \in 1..n
        BY <1>2, <1>3, <1>5
      <3>2. more[place[i]] = frames[place[i]]
        BY <1>1, <3>1
      <3> QED
        BY <1>3, <3>1, <3>2
    <2>2. called[m + 1].frame = more[further[m + 1]]
      BY <1>1, <1>2, <1>5
    <2> QED
      BY <1>2, <1>4, <2>1, <2>2
  <1>9. {further[i] : i \in DOMAIN called} = {k \in DOMAIN more : IsCommand(more[k])}
    <2>1. ASSUME NEW i \in 1..(m + 1)
          PROVE  further[i] \in 1..(n + 1) /\ IsCommand(more[further[i]])
      <3>1. CASE i \in 1..m
        <4>1. further[i] = place[i] /\ further[i] \in 1..n
          BY <1>5, <3>1
        <4>2. place[i] \in {k \in 1..n : IsCommand(frames[k])}
          BY <1>3, <3>1
        <4> QED
          BY <1>1, <1>4, <4>1, <4>2
      <3>2. CASE i = m + 1
        BY <1>1, <1>4, <1>5, <3>2
      <3> QED
        BY <1>4, <3>1, <3>2
    <2>2. ASSUME NEW k \in 1..(n + 1), IsCommand(more[k])
          PROVE  \E i \in 1..(m + 1) : further[i] = k
      <3>1. CASE k \in 1..n
        <4>1. k \in {place[i] : i \in 1..m}
          BY <1>1, <1>3, <2>2, <3>1
        <4>2. PICK i \in 1..m : place[i] = k
          BY <4>1
        <4> QED
          BY <1>4, <1>5, <4>2
      <3>2. CASE k = n + 1
        BY <1>4, <1>5, <3>2
      <3> QED
        BY <1>4, <3>1, <3>2
    <2>3. {further[i] : i \in 1..(m + 1)} = {k \in 1..(n + 1) : IsCommand(more[k])}
      <3> DEFINE A == {further[i] : i \in 1..(m + 1)}
                 B == {k \in 1..(n + 1) : IsCommand(more[k])}
      <3>1. \A k \in A : k \in B
        BY <2>1
      <3>2. \A k \in B : k \in A
        BY <2>2
      <3> QED
        BY <3>1, <3>2
    <2> QED
      BY <1>1, <1>2, <2>3
  <1>10. Placed(called, more, further)
    BY <1>6, <1>7, <1>8, <1>9 DEF Placed
  <1> QED
    BY <1>10 DEF called, more

OnceInv == CallsInv /\ EveryCommandOnce

LEMMA StepOnce == OnceInv /\ [IngressNext]_ingressVars => OnceInv'
  <1> SUFFICES ASSUME OnceInv, [IngressNext]_ingressVars
               PROVE  EveryCommandOnce'
    BY StepCalls DEF OnceInv
  <1>1. PICK place : Placed(dispatched, delivered, place)
    BY PlacedMeans DEF OnceInv
  <1>2. EveryCommandOnce' <=> \E further : Placed(dispatched', delivered', further)
    BY DEF EveryCommandOnce, Placed
  <1>3. CASE UNCHANGED <<dispatched, delivered>>
    BY <1>1, <1>2, <1>3
  <1>4. CASE IngressParse /\ delivered' # delivered
    <2>1. HandleFrame(Candidate) /\ Next
      BY <1>4 DEF IngressParse, Next
    <2>2. EmitFrame
      BY <1>4, <2>1, FramesCounted DEF OnceInv, CallsInv
    <2>3. delivered' = Append(delivered, Candidate)
      BY <2>2 DEF EmitFrame
    <2>4. /\ Candidate \in Seq(Byte) /\ Candidate[3] = ProtocolVersion
          /\ delivered \in Seq(Seq(Byte)) /\ dispatched \in Seq(Calls)
      BY <2>2, EmittedFrame, EmittedVersion DEF OnceInv, CallsInv, TypeInv, TypeOK
    <2>5. CASE ValidateFrame(Candidate).result = "OK"
      <3>1. Candidate \in CommandFrames
        BY <2>2, <2>5, EmittedFrame DEF OnceInv, CallsInv, CommandFrames
      <3>2. dispatched' = Append(dispatched, CallFor(Candidate))
        BY <2>1, <2>5 DEF HandleFrame, CallFor
      <3>3. CallFor(Candidate) \in Calls /\ CallFor(Candidate).frame = Candidate
        BY <3>1 DEF Calls, CallFor
      <3>4. IsCommand(Candidate)
        BY <2>4, <2>5, AcceptsCommands
      <3> QED
        BY <1>1, <1>2, <2>3, <2>4, <3>2, <3>3, <3>4, PlaceAdded
    <2>6. CASE ValidateFrame(Candidate).result # "OK"
      <3>1. dispatched' = dispatched
        BY <2>1, <2>6 DEF HandleFrame
      <3>2. ~ IsCommand(Candidate)
        BY <2>4, <2>6, AcceptsCommands
      <3> QED
        BY <1>1, <1>2, <2>3, <2>4, <3>1, <3>2, PlaceKept
    <2> QED
      BY <2>5, <2>6
  <1>5. CASE IngressParse /\ delivered' = delivered
    BY <1>3, <1>5 DEF IngressParse
  <1>6. CASE IngressFeed \/ IngressRead \/ IngressReset \/ UNCHANGED ingressVars
    BY <1>3, <1>6 DEF IngressFeed, Feed, IngressRead, ReadByte, IngressReset, GapReset,
                      ingressVars, vars
  <1> QED
    BY <1>4, <1>5, <1>6 DEF IngressNext

LEMMA InitOnce == IngressInit => OnceInv
  <1> SUFFICES ASSUME IngressInit
               PROVE  OnceInv
    OBVIOUS
  <1>1. dispatched = <<>> /\ delivered = <<>>
    BY DEF IngressInit, Init
  <1>2. CallsInv
    BY <1>1, InitTypeInv, EmptySeq DEF IngressInit, CallsInv
  <1>3. Placed(dispatched, delivered, <<>>)
    BY <1>1 DEF Placed
  <1> QED
    BY <1>2, <1>3, PlacedMeans DEF OnceInv

\* Every command that comes through reaches the consumer, once and in order, and
\* nothing else does: for every geometry, every CRC and any traffic.
THEOREM NoCommandLost == IngressSpec => []EveryCommandOnce
  <1>1. OnceInv => EveryCommandOnce
    BY DEF OnceInv
  <1> QED
    BY InitOnce, StepOnce, <1>1, PTL DEF IngressSpec

\* No two messages of the contract share a code.
LEMMA CodesDiffer ==
  ASSUME NEW t \in DOMAIN TypeCode
  PROVE  TypeNamed(TypeCode[t]) = t
  <1>1. ASSUME NEW u \in DOMAIN TypeCode, TypeCode[u] = TypeCode[t]
        PROVE  u = t
    BY <1>1 DEF TypeCode
  <1> QED
    BY <1>1 DEF TypeNamed

\* Where the type stands in a frame.
LEMMA TypeOfFrame ==
  ASSUME NEW fields \in Seq(Octet), NEW payload \in Seq(Octet),
         Len(fields) = HeaderSize - 5, Len(fields) >= 2
  PROVE  TypeField(EncodeFrame(fields, payload)) = ReadU16(fields, Len(fields) - 1)
  <1> DEFINE body == BodyOf(fields, payload)
             frame == EncodeFrame(fields, payload)
             f == Len(fields)
             low == f + 2
             high == f + 3
  <1>1. /\ f \in Nat /\ Len(payload) \in Nat /\ HeaderSize \in Nat
        /\ HeaderSize - 3 = low /\ low + 1 = high
        /\ f - 1 \in 1..f /\ f \in 1..f /\ f - 1 + 1 = f
        /\ low \in Nat /\ low = 3 + (f - 1) /\ high \in Nat /\ high = 3 + f
        /\ low \in 1..(5 + f + Len(payload)) /\ high \in 1..(5 + f + Len(payload))
    BY LenProperties, WireAssumption
  <1>2. LaidOut(body, fields, payload) /\ Framed(frame, body)
    BY BodyLayout, FrameLayout
  <1> HIDE DEF body, frame, low, high
  <1>3. body[low] = fields[f - 1] /\ body[high] = fields[f]
    BY <1>1, <1>2 DEF LaidOut
  <1>4. frame[low] = body[low] /\ frame[high] = body[high]
    <2>1. Len(body) = 5 + f + Len(payload)
      BY <1>2 DEF LaidOut
    <2> QED
      BY <1>1, <1>2, <2>1 DEF Framed
  <1>5. TypeField(frame) = frame[low] + ByteBase * frame[high]
    BY <1>1 DEF TypeField, ReadU16
  <1>6. ReadU16(fields, f - 1) = fields[f - 1] + ByteBase * fields[f]
    BY <1>1 DEF ReadU16
  <1> QED
    BY <1>3, <1>4, <1>5, <1>6 DEF frame

\* A command the CPU encodes reaches the consumer as it was meant: whatever
\* message the contract lets it send, encoded into a buffer with any old bytes
\* and framed with any flags and sequence, the decoder accepts the frame and the
\* gate hands over that very message.
THEOREM CommandArrives ==
  ASSUME NEW message, Holdable(message),
         MessageDirection(message.type) \in Endpoint,
         ValidateResult(message) = "OK",
         PayloadSize[message.type] <= MaxPayload,
         NEW before,
         NEW fields \in Seq(Octet), Len(fields) = HeaderSize - 5, Len(fields) >= 2,
         ReadU16(fields, Len(fields) - 1) = TypeCode[message.type],
         ByteBase = 256
  PROVE  LET frame == EncodeFrame(fields, BytesWritten(message, before))
         IN  /\ DecodeResult(frame) = "OK"
             /\ ValidateFrame(frame) = [result |-> "OK", message |-> message]
  <1> DEFINE t == message.type
             payload == BytesWritten(message, before)
             frame == EncodeFrame(fields, payload)
             decoded == DecodePayload(t, payload)
  <1>1. MessageDirection(t) # "UNKNOWN" /\ MessageDirection(t) # "MCU_TO_CPU"
    BY DEF Endpoint
  <1>2. t \in DOMAIN PayloadSize /\ t \in DOMAIN TypeCode
    <2>1. t \in DOMAIN PayloadSize
      BY <1>1, EndpointTypesDefined, SizedTypes
    <2> QED
      BY <2>1 DEF PayloadSize, TypeCode
  <1>3. payload \in Seq(Octet) /\ Len(payload) = PayloadSize[t]
    BY <1>2, EncodedPayload
  <1>4. Message(t, FieldsRead(t, payload)) = message
    BY <1>2, FieldsRestored
  <1> HIDE DEF payload
  <1>5. LengthKept(payload)
    <2> DEFINE n == Len(payload)
    <2>1. n \in Nat /\ n < 256
      BY <1>2, <1>3 DEF PayloadSize
    <2> HIDE DEF n
    <2>2. (n % 256) + 256 * ((n \div 256) % 256) = n
      BY <2>1
    <2>3. (n % ByteBase) + ByteBase * ((n \div ByteBase) % ByteBase) = n
      BY <2>2
    <2> QED
      BY <2>3 DEF LengthKept, n
  <1>6. /\ DecodeResult(frame) = "OK"
        /\ SubSeq(frame, HeaderSize + 1, Len(frame) - CrcSize) = payload
    <2>1. Len(payload) <= MaxPayload
      BY <1>3
    <2> HIDE DEF frame
    <2> QED
      BY <1>3, <1>5, <2>1, FrameDecodes DEF frame
  <1>7. TypeField(frame) = TypeCode[t]
    BY <1>3, TypeOfFrame
  <1> HIDE DEF frame
  <1>8. frame[3] = ProtocolVersion
    BY <1>6 DEF DecodeResult
  <1>9. TypeNamed(TypeField(frame)) = t /\ PayloadField(frame) = payload
    BY <1>2, <1>6, <1>7, CodesDiffer DEF PayloadField
  <1>10. decoded = [result |-> "OK", message |-> message]
    <2>1. SizeResult(t) = "OK"
      BY <1>2, SizedTypes
    <2> QED
      BY <1>3, <1>4, <2>1 DEF DecodePayload
  <1>11. ValidateFrame(frame) = [decoded EXCEPT !.result = MapMessageResult(@)]
    BY <1>1, <1>8, <1>9 DEF ValidateFrame
  <1>12. ValidateFrame(frame) = [result |-> "OK", message |-> message]
    BY <1>10, <1>11 DEF MapMessageResult
  <1> QED
    BY <1>6, <1>12 DEF frame, payload
=============================================================================
