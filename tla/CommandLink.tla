---------------------------- MODULE CommandLink -----------------------------
(***************************************************************************)
(* The link from end to end: a CPU that encodes commands with              *)
(* oomwoo_message_encode_payload and oomwoo_encode_frame, a line that      *)
(* damages nothing and never falls silent inside a frame, and the gate of  *)
(* the MCU.  The line hands the gate its bytes in pieces cut anywhere: in  *)
(* the middle of a header, or across the end of one frame and the          *)
(* beginning of the next.                                                  *)
(***************************************************************************)
EXTENDS CpuIngress

CONSTANTS
  Commands,      \* the messages the CPU may send
  Leads,         \* the flags and sequence bytes of its frames
  OldBytes,      \* what the CPU's payload buffer may hold before
  MaxAsked       \* bound: commands asked during a behaviour

\* The frame that carries a command.
CommandFrame(message, lead, before) ==
  EncodeFrame(lead \o WriteU16(TypeCode[message.type]), BytesWritten(message, before))

ASSUME LinkAssumption ==
  /\ ByteBase = 256 /\ HeaderSize >= 7
  /\ \A lead \in Leads : lead \in Seq(Octet) /\ Len(lead) = HeaderSize - 7
  /\ \A message \in Commands :
       /\ Holdable(message)
       /\ MessageDirection(message.type) \in {"CPU_TO_MCU", "BOTH"}
       /\ EncodeResult(message, PayloadSize[message.type]) = "OK"
       /\ PayloadSize[message.type] <= MaxPayload
  /\ \A message \in Commands, lead \in Leads, before \in OldBytes :
       CommandFrame(message, lead, before) \in Seq(Byte)
  /\ MaxAsked \in Nat

VARIABLES
  asked,         \* the commands the CPU has sent, oldest first
  line           \* bytes on their way to the gate

linkVars == <<ingressVars, asked, line>>

------------------------------------------------------------------------------
LinkInit == IngressInit /\ asked = <<>> /\ line = <<>>

\* The CPU sends a command, whatever the gate is doing.
Ask ==
  /\ Len(asked) < MaxAsked
  /\ \E message \in Commands, lead \in Leads, before \in OldBytes :
       /\ asked' = Append(asked, message)
       /\ line' = line \o CommandFrame(message, lead, before)
  /\ UNCHANGED ingressVars

\* The next piece of the stream is fed to the gate.
Carry ==
  /\ \E n \in 1..Len(line) :
       /\ input' = SubSeq(line, 1, n)
       /\ line' = SubSeq(line, n + 1, Len(line))
  /\ IngressFeed
  /\ UNCHANGED asked

LinkStep == (IngressRead \/ IngressParse) /\ UNCHANGED <<asked, line>>

LinkNext == Ask \/ Carry \/ LinkStep

LinkSpec == LinkInit /\ [][LinkNext]_linkVars

\* The line brings what it carries, and a feed call runs to its end.
FairLinkSpec == LinkSpec /\ WF_linkVars(Carry) /\ WF_linkVars(LinkStep)

------------------------------------------------------------------------------
(***************************************************************************)
(* Properties.                                                             *)
(***************************************************************************)
Handed == [i \in DOMAIN dispatched |-> dispatched[i].message]

Queue == INSTANCE CommandQueue WITH
           Parcel <- Commands, given <- asked, taken <- Handed

\* Encoder, framing, decoder and gate together are a queue of messages: what the
\* consumer is called with is what was asked for, field by field, in that order.
ImplementsQueue == Queue!QueueSpec

\* Every command that was asked for reaches the consumer.
AllHandedOver ==
  \A n \in 1..MaxAsked : Len(asked) = n ~> Len(dispatched) >= n

\* No command waits for the one after it: when the line is empty and the call
\* has returned, all of them have been handed over.
NoneWaiting == pc = "idle" /\ line = <<>> => Len(dispatched) = Len(asked)

\* docs/cpu-ingress.md:46-50, the other way round: undamaged traffic is not
\* taken for an error by any layer, wherever the pieces are cut.
UndamagedBooks ==
  /\ \A c \in {"discarded_bytes", "crc_errors", "version_errors", "length_errors"} :
       stats[c] = 0
  /\ \A c \in Rejections : ingress[c] = 0
=============================================================================
