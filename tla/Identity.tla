------------------------------ MODULE Identity ------------------------------
(***************************************************************************)
(* The identity service of oomwoo_identity.c: MCU_HELLO frames, on demand  *)
(* of its owner (emit_hello) or of the CPU (handle_message).               *)
(*                                                                         *)
(* Both calls write into a buffer of the caller, whose capacity may be too *)
(* small, and both may fail or ignore; only a hello that was written takes *)
(* a sequence number.  The header fields are those of the firmware, whose  *)
(* 16-bit numbers have two bytes.                                          *)
(***************************************************************************)
EXTENDS WireFormat, MessageCodec

CONSTANTS
  Firmware,          \* the [major, minor, build_id] a build may be given
  InitialSequences,  \* what the owner may start the sequence at
  Capacities,        \* sizes of the output buffers offered
  HelloLimit         \* bound: hellos written during a behaviour

ASSUME IdentityAssumption ==
  /\ HeaderSize = 10 /\ ByteBase = 256 /\ MaxPayload >= 8
  /\ \A version \in Firmware :
       Holdable(Message("MCU_HELLO", <<version.major, version.minor, version.build_id>>))
  /\ \A sequence \in InitialSequences : sequence \in Nat /\ sequence < 65536
  /\ Capacities \subseteq Nat
  /\ HelloLimit \in Nat

VARIABLES
  identity,     \* the oomwoo_identity_t
  hellos,       \* history: the frames successful calls left in the output
  first         \* history: the sequence number the service was started with

identityVars == <<identity, hellos, first>>

------------------------------------------------------------------------------
HelloPayloadSizeShort == 7                        \* mutant: a byte too few

\* OOMWOO_IDENTITY_HELLO_PAYLOAD_SIZE, which repeats the codec's MCU_HELLO_SIZE.
HelloPayloadSize == 8

HelloFrameSize == HeaderSize + HelloPayloadSize + CrcSize

HelloMessageSwapped(id) ==                        \* mutant: minor before major
  Message("MCU_HELLO", <<id.minor, id.major, id.build_id>>)

HelloMessage(id) ==
  Message("MCU_HELLO", <<id.major, id.minor, id.build_id>>)

\* The result code of emit_hello for an output of the given capacity.
EmitHelloResult(id, capacity) ==
  LET encoded == EncodeResult(HelloMessage(id), HelloPayloadSize)
      framed  == EncodeFrameResult(PayloadSize.MCU_HELLO, capacity)
  IN  IF capacity < HelloFrameSize THEN "OUTPUT_TOO_SMALL"
      ELSE IF encoded # "OK" THEN "CODEC_ERROR"
      ELSE IF framed = "OUTPUT_TOO_SMALL" THEN "OUTPUT_TOO_SMALL"
      ELSE IF framed # "OK" THEN "CODEC_ERROR"
      ELSE "OK"

\* The frame emit_hello writes; the payload buffer starts as stack memory, of
\* which nothing may be left.
HelloFrame(id) ==
  EncodeFrame(<<0>> \o WriteU16(id.next_sequence) \o WriteU16(TypeCode.MCU_HELLO),
              BytesWritten(HelloMessage(id), [i \in 1..HelloPayloadSize |-> 170]))

AfterHello(id) == [id EXCEPT !.next_sequence = (@ + 1) % 65536]

------------------------------------------------------------------------------
Starting(version, sequence) ==
  [major |-> version.major, minor |-> version.minor,
   build_id |-> version.build_id, next_sequence |-> sequence]

IdentityInit ==
  /\ \E version \in Firmware, sequence \in InitialSequences :
       /\ identity = Starting(version, sequence)
       /\ first = sequence
  /\ hellos = <<>>

EmitHelloEager(capacity) ==                       \* mutant: counts a failed call
  /\ identity' = AfterHello(identity)
  /\ hellos' = IF EmitHelloResult(identity, capacity) = "OK"
               THEN Append(hellos, HelloFrame(identity)) ELSE hellos
  /\ UNCHANGED first

\* oomwoo_identity_emit_hello.
EmitHello(capacity) ==
  \/ /\ EmitHelloResult(identity, capacity) = "OK"
     /\ hellos' = Append(hellos, HelloFrame(identity))
     /\ identity' = AfterHello(identity)
     /\ UNCHANGED first
  \/ /\ EmitHelloResult(identity, capacity) # "OK"
     /\ UNCHANGED identityVars

HandleAnyMessage(message, capacity) == EmitHello(capacity)   \* mutant: no test

\* oomwoo_identity_handle_message.
HandleMessage(message, capacity) ==
  \/ message.type = "IDENTIFY_REQUEST" /\ EmitHello(capacity)
  \/ message.type # "IDENTIFY_REQUEST" /\ UNCHANGED identityVars

\* The owner announces itself, or passes on a message the gate accepted.
Announce ==
  /\ Len(hellos) < HelloLimit
  /\ \E capacity \in Capacities : EmitHello(capacity)

Consume ==
  /\ Len(hellos) < HelloLimit
  /\ \E capacity \in Capacities,
        type \in {t \in DOMAIN TypeCode : MessageDirection(t) # "MCU_TO_CPU"} :
       HandleMessage(Message(type, <<>>), capacity)

IdentityNext == Announce \/ Consume

IdentitySpec == IdentityInit /\ [][IdentityNext]_identityVars

------------------------------------------------------------------------------
(***************************************************************************)
(* Properties.                                                             *)
(***************************************************************************)
SequenceField(frame) == ReadU16(frame, 5)

\* docs/identity-handshake.md:29-31: the hellos on the wire are numbered one
\* after the other from the number the service was started with, modulo 2^16,
\* whatever failed or was ignored in between.
HellosInSequence ==
  \A i \in DOMAIN hellos : SequenceField(hellos[i]) = (first + i - 1) % 65536

\* The other end can read every hello: the frame passes oomwoo_decode_frame and
\* its payload gives back the version and build of this firmware.
HellosReadable ==
  \A i \in DOMAIN hellos :
    LET frame == hellos[i]
    IN  /\ DecodeResult(frame) = "OK"
        /\ ReadU16(frame, 7) = TypeCode.MCU_HELLO
        /\ DecodePayload("MCU_HELLO", SubSeq(frame, HeaderSize + 1, Len(frame) - CrcSize))
             = [result  |-> "OK",
                message |-> [type |-> "MCU_HELLO",
                             values |-> <<identity.major, identity.minor,
                                          identity.build_id>>]]

\* An output of OOMWOO_IDENTITY_HELLO_FRAME_SIZE is always enough: the sizes
\* identity.h repeats are those the codec and the framing layer ask for.
FrameSizeSuffices == EmitHelloResult(identity, HelloFrameSize) = "OK"
=============================================================================
