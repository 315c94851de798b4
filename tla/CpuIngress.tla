----------------------------- MODULE CpuIngress -----------------------------
(***************************************************************************)
(* The CPU ingress gate of oomwoo_cpu_ingress.c: the stream decoder with   *)
(* handle_frame as its callback.  A frame the decoder emits is a command   *)
(* for the consumer if its direction, payload length and values are right, *)
(* and is counted under the reason otherwise.                              *)
(***************************************************************************)
EXTENDS StreamDecoder, MessageCodec

ASSUME IngressAssumption == Byte \subseteq Octet

VARIABLES
  ingress,       \* ingress->stats
  accepted,      \* the count the running, or last, ingress feed call returns
  dispatched     \* history: what the consumer's callback was called with

ingressVars == <<vars, ingress, accepted, dispatched>>

Rejections == {"wrong_direction", "unknown_type", "undefined_payload",
               "wrong_payload_length", "value_out_of_range", "codec_errors"}

IngressCounters == Rejections \cup {"accepted_messages"}

------------------------------------------------------------------------------
TypeField(frame) == ReadU16(frame, HeaderSize - 3)

PayloadField(frame) == SubSeq(frame, HeaderSize + 1, Len(frame) - CrcSize)

MapMessageResult(result) ==
  IF result = "OUTPUT_TOO_SMALL" THEN "CODEC_ERROR" ELSE result

ValidateFrameOneWay(frame) ==                     \* mutant: BOTH is not for the MCU
  LET type == TypeNamed(TypeField(frame))
  IN  IF MessageDirection(type) # "CPU_TO_MCU"
      THEN [result |-> "WRONG_DIRECTION", message |-> Cleared]
      ELSE DecodePayload(type, PayloadField(frame))

ValidateFrameAnyDirection(frame) ==               \* mutant: direction unchecked
  LET type == TypeNamed(TypeField(frame))
  IN  IF type = "UNKNOWN"
      THEN [result |-> "UNKNOWN_TYPE", message |-> Cleared]
      ELSE DecodePayload(type, PayloadField(frame))

\* oomwoo_cpu_ingress_validate_frame: its result and its typed output.
ValidateFrame(frame) ==
  LET type == TypeNamed(TypeField(frame))
      refused(result) == [result |-> result, message |-> Cleared]
      decoded == DecodePayload(type, PayloadField(frame))
  IN  IF frame[3] # ProtocolVersion THEN refused("BAD_VERSION")
      ELSE IF MessageDirection(type) = "UNKNOWN" THEN refused("UNKNOWN_TYPE")
      ELSE IF MessageDirection(type) = "MCU_TO_CPU" THEN refused("WRONG_DIRECTION")
      ELSE [decoded EXCEPT !.result = MapMessageResult(@)]

CountRejectionPartial(st, result) ==              \* mutant: missing cases
  IF result = "WRONG_DIRECTION" THEN Count(st, "wrong_direction") ELSE st

\* count_rejection: BAD_VERSION and NULL_ARGUMENT have no counter.
CountRejection(st, result) ==
  CASE result = "WRONG_DIRECTION"      -> Count(st, "wrong_direction")
    [] result = "UNKNOWN_TYPE"         -> Count(st, "unknown_type")
    [] result = "PAYLOAD_UNDEFINED"    -> Count(st, "undefined_payload")
    [] result = "WRONG_PAYLOAD_LENGTH" -> Count(st, "wrong_payload_length")
    [] result = "VALUE_OUT_OF_RANGE"   -> Count(st, "value_out_of_range")
    [] result = "CODEC_ERROR"          -> Count(st, "codec_errors")
    [] OTHER                           -> st

\* handle_frame, with a consumer callback installed.
HandleFrame(frame) ==
  LET verdict == ValidateFrame(frame)
  IN  \/ /\ verdict.result = "OK"
         /\ ingress' = Count(ingress, "accepted_messages")
         /\ accepted' = accepted + 1
         /\ dispatched' = Append(dispatched,
                            [frame |-> frame, message |-> verdict.message])
      \/ /\ verdict.result # "OK"
         /\ ingress' = CountRejection(ingress, verdict.result)
         /\ UNCHANGED <<accepted, dispatched>>

------------------------------------------------------------------------------
IngressInit ==
  /\ Init
  /\ ingress = [c \in IngressCounters |-> 0]
  /\ accepted = 0
  /\ dispatched = <<>>

\* oomwoo_cpu_ingress_init, when the owner starts over.
IngressRestart ==
  /\ Restart
  /\ ingress' = [c \in IngressCounters |-> 0]
  /\ accepted' = 0
  /\ dispatched' = <<>>

IngressFeed ==
  /\ Feed
  /\ accepted' = 0
  /\ UNCHANGED <<ingress, dispatched>>

IngressRead ==
  /\ ReadByte
  /\ UNCHANGED <<ingress, accepted, dispatched>>

\* An iteration of the parse loop; the decoder's callback is handle_frame.
IngressParse ==
  /\ Parse
  /\ \/ delivered' # delivered /\ HandleFrame(Candidate)
     \/ delivered' = delivered /\ UNCHANGED <<ingress, accepted, dispatched>>

IngressReset ==
  /\ GapReset
  /\ UNCHANGED <<ingress, accepted, dispatched>>

IngressNext == IngressFeed \/ IngressRead \/ IngressParse \/ IngressReset

IngressSpec == IngressInit /\ [][IngressNext]_ingressVars

------------------------------------------------------------------------------
\* docs/cpu-ingress.md:46-50: every valid frame is accepted or counted under
\* exactly one rejection, so the gate's counters add up to the decoder's
\* `frames`, also after they have wrapped.
IngressBalance ==
  (ingress.accepted_messages + ingress.wrong_direction + ingress.unknown_type
     + ingress.undefined_payload + ingress.wrong_payload_length
     + ingress.value_out_of_range + ingress.codec_errors) % CounterMod
    = stats.frames

\* What reaches the consumer is a command: it may travel towards the MCU, and
\* encoding the typed message gives back the payload of the frame it came in.
DispatchedIsGenuine ==
  \A i \in DOMAIN dispatched :
    LET message == dispatched[i].message
        payload == PayloadField(dispatched[i].frame)
    IN  /\ MessageDirection(message.type) \in {"CPU_TO_MCU", "BOTH"}
        /\ TypeCode[message.type] = TypeField(dispatched[i].frame)
        /\ EncodeResult(message, Len(payload)) = "OK"
        /\ BytesWritten(message, payload) = payload

\* The open payloads are MCU-to-CPU and stop at the direction test, and the
\* codec is never asked to encode: these two counters are defence in depth that
\* nothing on the line can reach.
UnreachableRejections ==
  /\ ingress.undefined_payload = 0
  /\ ingress.codec_errors = 0

\* What the CPU may ask of the MCU, told by the encoder: the frame's type may
\* travel towards the MCU, and its payload has the length and the values of a
\* message oomwoo_message_encode_payload writes.
IsCommand(frame) ==
  LET payload == PayloadField(frame)
      type == TypeNamed(TypeField(frame))
      message == Message(type, FieldsRead(type, payload))
  IN  /\ MessageDirection(type) \in {"CPU_TO_MCU", "BOTH"}
      /\ Len(payload) = PayloadSize[type]
      /\ EncodeResult(message, Len(payload)) = "OK"

\* The consumer is called for every command among the frames that came through
\* and for nothing else, once for each and in the order of their arrival.
EveryCommandOnce ==
  \E place \in [DOMAIN dispatched -> DOMAIN delivered] :
    /\ \A i, j \in DOMAIN dispatched : i < j => place[i] < place[j]
    /\ \A i \in DOMAIN dispatched : dispatched[i].frame = delivered[place[i]]
    /\ {place[i] : i \in DOMAIN dispatched}
         = {n \in DOMAIN delivered : IsCommand(delivered[n])}
=============================================================================
