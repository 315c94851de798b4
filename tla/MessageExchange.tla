--------------------------- MODULE MessageExchange --------------------------
(***************************************************************************)
(* One message through the codec of oomwoo_messages.c: a sender encodes it *)
(* into a payload buffer, the payload travels, and a receiver decodes it   *)
(* into a typed output.                                                    *)
(*                                                                         *)
(* The sender's buffer is not initialised (identity.c:24 declares it on    *)
(* the stack), and another firmware may send payloads this encoder would   *)
(* never write, so what the receiver sees need not be what was encoded.    *)
(***************************************************************************)
EXTENDS MessageCodec

CONSTANTS
  Messages,            \* the messages a sender may try to encode
  Capacities,          \* the sizes its payload buffer may have
  OldBytes,            \* what a byte of that buffer may hold before
  Altered(_)           \* the <<type, payload>> pairs another sender may send
                       \* in place of one

ASSUME ExchangeAssumption == \A message \in Messages : Holdable(message)

VARIABLES
  stage,               \* "idle" | "encoded" | "refused" | "travelling" | "decoded"
  sent,                \* the message the sender encoded
  payload,             \* the payload of its type
  encodeResult,        \* the result oomwoo_message_encode_payload returned
  intact,              \* what arrives is what was encoded
  wire,                \* the type and payload that arrive
  typed,               \* the receiver's oomwoo_message_t
  decodeResult         \* the result oomwoo_message_decode_payload returned

vars == <<stage, sent, payload, encodeResult, intact, wire, typed, decodeResult>>

Init ==
  /\ stage = "idle"
  /\ sent = Cleared
  /\ payload = <<>>
  /\ encodeResult = "OK"
  /\ intact = TRUE
  /\ wire = <<"UNKNOWN", <<>>>>
  /\ typed = Cleared
  /\ decodeResult = "OK"

\* oomwoo_message_encode_payload: a refused message leaves the length at 0.
Encode ==
  /\ stage = "idle"
  /\ \E message \in Messages, capacity \in Capacities, old \in OldBytes :
       LET result == EncodeResult(message, capacity)
       IN  /\ sent' = message
           /\ encodeResult' = result
           /\ payload' = IF result = "OK"
                         THEN BytesWritten(message, [i \in 1..capacity |-> old])
                         ELSE <<>>
           /\ stage' = IF result = "OK" THEN "encoded" ELSE "refused"
  /\ UNCHANGED <<intact, wire, typed, decodeResult>>

\* The payload arrives as encoded, or another sender's bytes arrive.
Travel ==
  /\ stage = "encoded"
  /\ \E arriving \in {<<sent.type, payload>>} \cup Altered(<<sent.type, payload>>) :
       /\ arriving[2] \in Seq(Octet)
       /\ wire' = arriving
       /\ intact' = (arriving = <<sent.type, payload>>)
  /\ stage' = "travelling"
  /\ UNCHANGED <<sent, payload, encodeResult, typed, decodeResult>>

\* oomwoo_message_decode_payload.
Decode ==
  /\ stage = "travelling"
  /\ LET outcome == DecodePayload(wire[1], wire[2])
     IN  typed' = outcome.message /\ decodeResult' = outcome.result
  /\ stage' = "decoded"
  /\ UNCHANGED <<sent, payload, encodeResult, intact, wire>>

\* The exchange is over; the next one has local variables of its own.
Forget ==
  /\ stage \in {"refused", "decoded"}
  /\ stage' = "idle"
  /\ sent' = Cleared
  /\ payload' = <<>>
  /\ encodeResult' = "OK"
  /\ intact' = TRUE
  /\ wire' = <<"UNKNOWN", <<>>>>
  /\ typed' = Cleared
  /\ decodeResult' = "OK"

Next == Encode \/ Travel \/ Decode \/ Forget

Spec == Init /\ [][Next]_vars

------------------------------------------------------------------------------
\* Whatever the encoder accepts, and whatever its buffer held before, the
\* decoder accepts and restores: the two layouts, the length table and the
\* validation agree for every message.
RoundTrip ==
  stage = "decoded" /\ intact => decodeResult = "OK" /\ typed = sent

\* What the decoder accepts has one encoding only: encoding it again gives the
\* bytes that arrived, so no byte of an accepted payload is ignored.
AcceptedIsCanonical ==
  stage = "decoded" /\ decodeResult = "OK" =>
    /\ EncodeResult(typed, Len(wire[2])) = "OK"
    /\ BytesWritten(typed, [i \in 1..Len(wire[2]) |-> -1]) = wire[2]

\* docs/protocol-bringup.md:124-125: a payload of the wrong length or with a
\* field out of bounds leaves nothing of itself in the typed output.
RejectedIsCleared ==
  stage = "decoded" /\ decodeResult # "OK" => typed = Cleared

\* The two's complement number in the i-th and the next byte of p.
Twos(p, i) == ((p[i] + 256 * p[i + 1] + 32768) % 65536) - 32768

DriveWithinLimits(p) ==
  /\ -500 <= Twos(p, 1) /\ Twos(p, 1) <= 500
  /\ -4000 <= Twos(p, 3) /\ Twos(p, 3) <= 4000
  /\ 1 <= p[5] + 256 * p[6] /\ p[5] + 256 * p[6] <= 250

\* No command the decoder accepts drives, turns or runs longer than the
\* contract's limits, read from the two's-complement bytes that arrived.
AcceptedDriveWithinLimits ==
  stage = "decoded" /\ decodeResult = "OK" /\ wire[1] = "DRIVE_SETPOINT" =>
    DriveWithinLimits(wire[2])
=============================================================================
