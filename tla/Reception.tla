----------------------------- MODULE Reception ------------------------------
(***************************************************************************)
(* The gate on a line that may bring anything, with what becomes of every  *)
(* byte: `heard` keeps all bytes the decoder has taken in, `fate` tells of *)
(* each one that has left its buffer how it left.  So what the receiver    *)
(* made of a stretch of the line can be compared with what stood in it,    *)
(* also with the bytes that came later.                                    *)
(***************************************************************************)
EXTENDS CpuIngress

VARIABLES
  heard,         \* history: every byte taken in, oldest first
  fate           \* history: what became of the first Len(fate) of them

receptionVars == <<ingressVars, heard, fate>>

\* A byte left in the n-th frame delivered (n > 0), or in one of these ways.
Noise == 0
GivenUp == -1

\* The k bytes at the head of the buffer leave it.
Leave(k, how) == fate' = fate \o [i \in 1..k |-> how]

------------------------------------------------------------------------------
ReceptionInit == IngressInit /\ heard = <<>> /\ fate = <<>>

Offer == IngressFeed /\ UNCHANGED <<heard, fate>>

TakeByte == IngressRead /\ heard' = Append(heard, Head(input))
             /\ Leave(Len(buffer) + 1 - Len(buffer'), Noise)

Decide ==
  /\ IngressParse
  /\ Leave(Len(buffer) - Len(buffer'),
           IF delivered' = delivered THEN Noise ELSE Len(delivered'))
  /\ UNCHANGED heard

LetGo == IngressReset /\ Leave(Len(buffer), GivenUp) /\ UNCHANGED heard

ReceptionNext == Offer \/ TakeByte \/ Decide \/ LetGo

ReceptionSpec == ReceptionInit /\ [][ReceptionNext]_receptionVars

------------------------------------------------------------------------------
(***************************************************************************)
(* Properties.                                                             *)
(***************************************************************************)
\* The length of the frame that a header at position p of the line claims, and
\* the bytes it claims.
Claimed(p) == HeaderSize + ReadU16(heard, p + HeaderSize - 2) + CrcSize

Stretch(p) == SubSeq(heard, p, p + Claimed(p) - 1)

\* A whole valid frame stands on the line from position p on.
FrameAt(p) ==
  /\ p + HeaderSize - 1 <= Len(heard)
  /\ p + Claimed(p) - 1 <= Len(heard)
  /\ DecodeResult(Stretch(p)) = "OK"

\* No frame is taken for noise, whatever surrounds it and however late the rest
\* of it came: where a byte was thrown away, no valid frame stands.
NoFrameMissed ==
  \A p \in DOMAIN fate : fate[p] = Noise => ~ FrameAt(p)

\* Each frame delivered is a stretch of the line, byte by byte as it came; no
\* two of them share a byte, and they come in the order of the line.
DeliveredAsReceived ==
  /\ \A n \in DOMAIN delivered : \E p \in DOMAIN heard :
       /\ {q \in DOMAIN fate : fate[q] = n} = p..(p + Len(delivered[n]) - 1)
       /\ \A i \in DOMAIN delivered[n] : delivered[n][i] = heard[p + i - 1]
  /\ \A p, q \in DOMAIN fate : p < q /\ fate[q] > 0 => fate[p] <= fate[q]

\* The frame at p is the one that was delivered from there, and the consumer
\* was called with it.
HandedOver(p) ==
  /\ fate[p] \in DOMAIN delivered /\ delivered[fate[p]] = Stretch(p)
  /\ \E i \in DOMAIN dispatched : dispatched[i].frame = Stretch(p)

\* The byte at p is not the first of the frame it left in.
WithinFrame(p) == fate[p] > 0 /\ p > 1 /\ fate[p - 1] = fate[p]

\* The byte at p waits behind an unfinished candidate, which the next bytes
\* will decide: it holds less than a longest frame.
BehindCandidate(p) == p > Len(fate) + 1 /\ Len(heard) - Len(fate) < MaxFrame

\* Every command that stands undamaged on the line reaches the consumer,
\* whatever came before, between and after, with three exceptions: bytes of it
\* came out in a valid frame that began before it, a gap reset gave it up, or a
\* candidate before it is not finished yet.
CommandGetsThrough ==
  pc = "idle" =>
    \A p \in DOMAIN heard : FrameAt(p) /\ IsCommand(Stretch(p)) =>
      IF p > Len(fate) THEN BehindCandidate(p)
      ELSE HandedOver(p) \/ WithinFrame(p) \/ fate[p] = GivenUp
=============================================================================
