---------------------------- MODULE MessageCodec ----------------------------
(***************************************************************************)
(* The typed message codec, oomwoo_messages.c: which way each message of   *)
(* the contract may travel, the length and layout of its payload, and the  *)
(* range of its values.                                                    *)
(*                                                                         *)
(* The source writes each layout twice, once to decode and once to encode, *)
(* and its length a third time; the three tables here keep them apart.  A  *)
(* message is its name and the values of its fields in wire order; a u32   *)
(* is a pair of u16 halves, low half first.                                *)
(***************************************************************************)
EXTENDS Integers, Sequences

\* oomwoo_message_type_t.
TypeCode ==
  [HEARTBEAT          |-> 1,     ESTOP_SET       |-> 2,
   CLEAR_LATCHED_FAULT |-> 3,    IDENTIFY_REQUEST |-> 4,
   DRIVE_SETPOINT     |-> 257,   CLEANING_MOTORS_SET |-> 258,
   LIDAR_MOTOR_SET    |-> 259,   LED_SET         |-> 260,
   ACK                |-> 28673, NACK            |-> 28674,
   MCU_HELLO          |-> 32768, FAST_TELEMETRY  |-> 32769,
   SAFETY_EVENT       |-> 32770, POWER_TELEMETRY |-> 32771,
   MCU_DIAGNOSTIC     |-> 32772, SAFETY_STATE    |-> 32773]

\* The message a u16 on the wire names, if any.
TypeNamed(code) ==
  IF \E t \in DOMAIN TypeCode : TypeCode[t] = code
  THEN CHOOSE t \in DOMAIN TypeCode : TypeCode[t] = code
  ELSE "UNKNOWN"

MessageDirectionByRange(t) ==                     \* mutant: no ACK from the CPU
  CASE t \notin DOMAIN TypeCode -> "UNKNOWN"
    [] TypeCode[t] < 4096       -> "CPU_TO_MCU"
    [] OTHER                    -> "MCU_TO_CPU"

MessageDirection(t) ==
  CASE t \in {"HEARTBEAT", "ESTOP_SET", "CLEAR_LATCHED_FAULT",
              "IDENTIFY_REQUEST", "DRIVE_SETPOINT", "CLEANING_MOTORS_SET",
              "LIDAR_MOTOR_SET", "LED_SET"}                 -> "CPU_TO_MCU"
    [] t \in {"ACK", "NACK"}                                -> "BOTH"
    [] t \in {"MCU_HELLO", "FAST_TELEMETRY", "SAFETY_EVENT",
              "POWER_TELEMETRY", "MCU_DIAGNOSTIC",
              "SAFETY_STATE"}                               -> "MCU_TO_CPU"
    [] OTHER                                                -> "UNKNOWN"

PayloadSize ==
  [HEARTBEAT |-> 5, ESTOP_SET |-> 3, CLEAR_LATCHED_FAULT |-> 2,
   IDENTIFY_REQUEST |-> 0, DRIVE_SETPOINT |-> 6, CLEANING_MOTORS_SET |-> 4,
   LIDAR_MOTOR_SET |-> 1, LED_SET |-> 3, ACK |-> 4, NACK |-> 4,
   MCU_HELLO |-> 8, FAST_TELEMETRY |-> 19, SAFETY_EVENT |-> 5,
   SAFETY_STATE |-> 8]

\* The result of oomwoo_message_payload_size.
SizeResult(t) ==
  CASE t \in DOMAIN PayloadSize                   -> "OK"
    [] t \in {"POWER_TELEMETRY", "MCU_DIAGNOSTIC"} -> "PAYLOAD_UNDEFINED"
    [] OTHER                                      -> "UNKNOWN_TYPE"

------------------------------------------------------------------------------
(***************************************************************************)
(* Numbers on the wire.  A layout is a sequence of <<kind, offset>>.       *)
(***************************************************************************)
Octet == 0..255

\* What a struct field of a kind can hold.
Fits(kind, v) ==
  CASE kind = "u8"  -> v \in Octet
    [] kind = "u16" -> v \in Nat /\ v <= 65535
    [] kind = "i16" -> v \in Int /\ -32768 <= v /\ v <= 32767
    [] kind = "u32" -> /\ v = <<v[1], v[2]>>
                       /\ v[1] \in Nat /\ v[1] <= 65535
                       /\ v[2] \in Nat /\ v[2] <= 65535
    [] kind = "i32" -> v \in Int /\ -2147483647 - 1 <= v /\ v <= 2147483647

Width(kind) == CASE kind = "u8" -> 1 [] kind \in {"u16", "i16"} -> 2
                 [] OTHER -> 4

Signed16NoOne(v) == IF v <= 32767 THEN v ELSE -(65535 - v)   \* mutant: no - 1

\* read_i16_le and read_i32_le after the unsigned read.
Signed16(v) == IF v <= 32767 THEN v ELSE -(65535 - v) - 1

Signed32(low, high) ==
  IF high <= 32767 THEN 65536 * high + low
                   ELSE -(65536 * (65535 - high) + (65535 - low)) - 1

ReadField(kind, p, offset) ==
  LET u16(o) == p[o + 1] + 256 * p[o + 2]
  IN  CASE kind = "u8"  -> p[offset + 1]
        [] kind = "u16" -> u16(offset)
        [] kind = "i16" -> Signed16(u16(offset))
        [] kind = "u32" -> <<u16(offset), u16(offset + 2)>>
        [] kind = "i32" -> Signed32(u16(offset), u16(offset + 2))

\* Signed values are cast to the unsigned type of their width first.
WriteField(kind, v) ==
  LET u16(n) == <<n % 256, (n \div 256) % 256>>
  IN  CASE kind = "u8"           -> <<v>>
        [] kind \in {"u16", "i16"} -> u16(v % 65536)
        [] kind = "u32"          -> u16(v[1]) \o u16(v[2])
        [] kind = "i32"          -> u16(v % 65536) \o u16((v \div 65536) % 65536)

DecodeLayout ==
  [HEARTBEAT           |-> << <<"u32", 0>>, <<"u8", 4>> >>,
   ESTOP_SET           |-> << <<"u8", 0>>, <<"u16", 1>> >>,
   CLEAR_LATCHED_FAULT |-> << <<"u16", 0>> >>,
   IDENTIFY_REQUEST    |-> << >>,
   DRIVE_SETPOINT      |-> << <<"i16", 0>>, <<"i16", 2>>, <<"u16", 4>> >>,
   CLEANING_MOTORS_SET |-> << <<"u8", 0>>, <<"u8", 1>>, <<"u8", 2>>, <<"u8", 3>> >>,
   LIDAR_MOTOR_SET     |-> << <<"u8", 0>> >>,
   LED_SET             |-> << <<"u8", 0>>, <<"u8", 1>>, <<"u8", 2>> >>,
   ACK                 |-> << <<"u16", 0>>, <<"u16", 2>> >>,
   NACK                |-> << <<"u16", 0>>, <<"u16", 2>> >>,
   MCU_HELLO           |-> << <<"u16", 0>>, <<"u16", 2>>, <<"u32", 4>> >>,
   FAST_TELEMETRY      |-> << <<"u32", 0>>, <<"i32", 4>>, <<"i32", 8>>,
                              <<"u8", 12>>, <<"u8", 13>>, <<"u8", 14>>,
                              <<"u8", 15>>, <<"u8", 16>>, <<"u16", 17>> >>,
   SAFETY_EVENT        |-> << <<"u16", 0>>, <<"u8", 2>>, <<"u16", 3>> >>,
   SAFETY_STATE        |-> << <<"u32", 0>>, <<"u16", 4>>, <<"u16", 6>> >>]

EncodeLayoutShort ==                              \* mutant: a byte not written
  [DecodeLayout EXCEPT !.LED_SET = << <<"u8", 0>>, <<"u8", 1>> >>]

EncodeLayout ==
  [HEARTBEAT           |-> << <<"u32", 0>>, <<"u8", 4>> >>,
   ESTOP_SET           |-> << <<"u8", 0>>, <<"u16", 1>> >>,
   CLEAR_LATCHED_FAULT |-> << <<"u16", 0>> >>,
   IDENTIFY_REQUEST    |-> << >>,
   DRIVE_SETPOINT      |-> << <<"i16", 0>>, <<"i16", 2>>, <<"u16", 4>> >>,
   CLEANING_MOTORS_SET |-> << <<"u8", 0>>, <<"u8", 1>>, <<"u8", 2>>, <<"u8", 3>> >>,
   LIDAR_MOTOR_SET     |-> << <<"u8", 0>> >>,
   LED_SET             |-> << <<"u8", 0>>, <<"u8", 1>>, <<"u8", 2>> >>,
   ACK                 |-> << <<"u16", 0>>, <<"u16", 2>> >>,
   NACK                |-> << <<"u16", 0>>, <<"u16", 2>> >>,
   MCU_HELLO           |-> << <<"u16", 0>>, <<"u16", 2>>, <<"u32", 4>> >>,
   FAST_TELEMETRY      |-> << <<"u32", 0>>, <<"i32", 4>>, <<"i32", 8>>,
                              <<"u8", 12>>, <<"u8", 13>>, <<"u8", 14>>,
                              <<"u8", 15>>, <<"u8", 16>>, <<"u16", 17>> >>,
   SAFETY_EVENT        |-> << <<"u16", 0>>, <<"u8", 2>>, <<"u16", 3>> >>,
   SAFETY_STATE        |-> << <<"u32", 0>>, <<"u16", 4>>, <<"u16", 6>> >>]

------------------------------------------------------------------------------
InRangeUpperOnly(t, v) ==                         \* mutant: no lower limits
  t = "DRIVE_SETPOINT" => v[1] <= 500 /\ v[2] <= 4000 /\ v[3] \in 1..250

\* The limits of oomwoo_message_validate on the field values v of a message t.
InRange(t, v) ==
  CASE t = "HEARTBEAT"       -> v[2] \in {0, 1}
    [] t = "ESTOP_SET"       -> v[1] <= 1
    [] t = "DRIVE_SETPOINT"  -> /\ v[1] >= -500 /\ v[1] <= 500
                                /\ v[2] >= -4000 /\ v[2] <= 4000
                                /\ v[3] # 0 /\ v[3] <= 250
    [] t = "CLEANING_MOTORS_SET" -> \A i \in 1..4 : v[i] <= 100
    [] t = "LIDAR_MOTOR_SET" -> v[1] <= 100
    [] t = "LED_SET"         -> v[3] <= 100
    [] t = "SAFETY_EVENT"    -> v[1] # 0 /\ v[1] <= 16 /\ v[2] <= 1
    [] OTHER                 -> TRUE

Message(t, v) == [type |-> t, values |-> v]

\* A value of oomwoo_message_t: each field of its type's struct holds a number.
Holdable(message) ==
  message.type \in DOMAIN PayloadSize =>
    LET layout == DecodeLayout[message.type]
    IN  /\ message = Message(message.type, [k \in DOMAIN layout |-> message.values[k]])
        /\ \A k \in DOMAIN layout : Fits(layout[k][1], message.values[k])

\* What memset leaves in a typed output.
Cleared == Message("NONE", <<>>)

ValidateResult(message) ==
  IF SizeResult(message.type) # "OK" THEN SizeResult(message.type)
  ELSE IF ~InRange(message.type, message.values) THEN "VALUE_OUT_OF_RANGE"
  ELSE "OK"

\* The field values oomwoo_message_decode_payload reads from a payload.
FieldsRead(t, p) ==
  [i \in DOMAIN DecodeLayout[t] |->
     ReadField(DecodeLayout[t][i][1], p, DecodeLayout[t][i][2])]

DecodePayloadKept(t, p) ==                        \* mutant: output not cleared
  LET message == Message(t, FieldsRead(t, p))
  IN  IF SizeResult(t) = "OK" /\ Len(p) = PayloadSize[t]
      THEN [result |-> ValidateResult(message), message |-> message]
      ELSE [result |-> "WRONG_PAYLOAD_LENGTH", message |-> Cleared]

\* oomwoo_message_decode_payload: its result code and its typed output.
DecodePayload(t, p) ==
  LET failed(result) == [result |-> result, message |-> Cleared]
      message == Message(t, FieldsRead(t, p))
  IN  IF SizeResult(t) # "OK" THEN failed(SizeResult(t))
      ELSE IF Len(p) # PayloadSize[t] THEN failed("WRONG_PAYLOAD_LENGTH")
      ELSE IF ValidateResult(message) # "OK" THEN failed(ValidateResult(message))
      ELSE [result |-> "OK", message |-> message]

\* The bytes oomwoo_message_encode_payload leaves in an output whose byte i was
\* before[i]: a byte no field covers keeps its old value.
BytesWritten(message, before) ==
  LET layout == EncodeLayout[message.type]
      covers(k, i) == i - layout[k][2] \in 1..Width(layout[k][1])
  IN  [i \in 1..PayloadSize[message.type] |->
         IF \E k \in DOMAIN layout : covers(k, i)
         THEN LET k == CHOOSE k \in DOMAIN layout : covers(k, i)
              IN  WriteField(layout[k][1], message.values[k])[i - layout[k][2]]
         ELSE before[i]]

\* oomwoo_message_encode_payload into an output of the given capacity.
EncodeResult(message, capacity) ==
  IF ValidateResult(message) # "OK" THEN ValidateResult(message)
  ELSE IF capacity < PayloadSize[message.type] THEN "OUTPUT_TOO_SMALL"
  ELSE "OK"
=============================================================================
