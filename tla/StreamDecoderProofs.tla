------------------------ MODULE StreamDecoderProofs -------------------------
(***************************************************************************)
(* What holds of the stream decoder for every frame geometry, every CRC,   *)
(* every input and every way of cutting it into feed calls.                *)
(***************************************************************************)
EXTENDS StreamDecoder, TLAPS, SequenceTheorems

(***************************************************************************)
(* The operators the decoder is built from.                                *)
(***************************************************************************)

\* What remains of a buffer after its first k bytes.
LEMMA DropPrefix ==
  ASSUME NEW b \in Seq(Byte), NEW k \in 0..Len(b)
  PROVE  /\ SubSeq(b, k + 1, Len(b)) \in Seq(Byte)
         /\ Len(SubSeq(b, k + 1, Len(b))) = Len(b) - k
  <1>1. Len(b) \in Nat
    BY LenProperties
  <1>2. \A i \in (k + 1)..Len(b) : b[i] \in Byte
    BY <1>1, ElementOfSeq
  <1> QED
    BY <1>1, <1>2, SubSeqProperties

\* A resynchronisation of two bytes or more always drops the head: the parse
\* loop cannot meet the same candidate again.
LEMMA ResyncProgress ==
  ASSUME NEW b \in Seq(Byte), NEW k \in 0..Len(b),
         Len(b) >= 2, ResyncPoint(b, k)
  PROVE  k >= 1
  <1>1. Len(b) \in Nat
    BY LenProperties
  <1> QED
    BY <1>1 DEF ResyncPoint, MagicPositions

LEMMA ByteIsNat == Byte \subseteq Nat
  <1>1. Byte \subseteq 0..(ByteBase - 1) /\ ByteBase \in Nat
    BY WireAssumption
  <1> QED
    BY <1>1

LEMMA ProductNat ==
  ASSUME NEW x \in Nat, NEW y \in Nat
  PROVE  x * y \in Nat
  OBVIOUS

\* The frame length claimed by a header, and its bound once the payload
\* length has been accepted.
LEMMA FrameLengthBounds ==
  ASSUME NEW b \in Seq(Byte), Len(b) >= HeaderSize
  PROVE  /\ PayloadLength(b) \in Nat
         /\ FrameLength(b) \in Nat
         /\ FrameLength(b) >= HeaderSize + CrcSize
         /\ PayloadLength(b) <= MaxPayload => FrameLength(b) <= MaxFrame
  <1>1. Len(b) \in Nat
    BY LenProperties
  <1>2. b[HeaderSize - 1] \in Nat /\ b[HeaderSize] \in Nat
    <2>1. HeaderSize - 1 \in 1..Len(b) /\ HeaderSize \in 1..Len(b)
      BY <1>1, WireAssumption
    <2>2. b[HeaderSize - 1] \in Byte /\ b[HeaderSize] \in Byte
      BY <2>1, ElementOfSeq
    <2> QED
      BY <2>2, ByteIsNat
  <1>3. ByteBase * b[HeaderSize] \in Nat
    BY <1>2, ProductNat, WireAssumption
  <1>4. PayloadLength(b) \in Nat
    BY <1>2, <1>3, WireAssumption DEF PayloadLength, ReadU16
  <1> QED
    BY <1>4, WireAssumption DEF FrameLength, MaxFrame

\* The counters stay within their width.
LEMMA PlusInRange ==
  ASSUME NEW n \in Nat, NEW k \in Nat
  PROVE  Plus(n, k) \in 0..(CounterMod - 1)
  BY DecoderAssumption DEF Plus

LEMMA CountTyped ==
  ASSUME NEW st \in [Counters -> 0..(CounterMod - 1)], NEW c \in Counters
  PROVE  /\ Count(st, c) \in [Counters -> 0..(CounterMod - 1)]
         /\ Count(st, c).discarded_bytes =
              IF c = "discarded_bytes" THEN Plus(st.discarded_bytes, 1)
              ELSE st.discarded_bytes
  <1>1. Plus(st[c], 1) \in 0..(CounterMod - 1)
    BY PlusInRange, DecoderAssumption
  <1> QED
    BY <1>1 DEF Count, Counters

------------------------------------------------------------------------------
(***************************************************************************)
(* Removing bytes from the front of the buffer.                            *)
(***************************************************************************)
CounterRecords == [Counters -> 0..(CounterMod - 1)]

LEMMA DiscardEffect ==
  ASSUME TypeOK, NEW st \in CounterRecords, NEW k \in 0..Len(buffer),
         DiscardPrefix(k, st)
  PROVE  /\ buffer' \in Seq(Byte)
         /\ Len(buffer') = Len(buffer) - k
         /\ stats' \in CounterRecords
         /\ stats'.discarded_bytes = Plus(st.discarded_bytes, k)
         /\ \A c \in Counters \ {"discarded_bytes"} : stats'[c] = st[c]
  <1>1. buffer \in Seq(Byte) /\ Len(buffer) \in Nat
    BY LenProperties DEF TypeOK
  <1>2. /\ buffer' \in Seq(Byte)
        /\ Len(buffer') = Len(buffer) - k
    BY <1>1, DropPrefix DEF DiscardPrefix
  <1>3. Plus(st.discarded_bytes, k) \in 0..(CounterMod - 1)
    <2>1. st.discarded_bytes \in Nat /\ k \in Nat
      BY <1>1, DecoderAssumption DEF Counters, CounterRecords
    <2> QED
      BY <2>1, PlusInRange
  <1> QED
    BY <1>2, <1>3 DEF DiscardPrefix, Counters, CounterRecords

\* A resynchronisation makes the buffer shorter and counts what it dropped.
LEMMA ResyncEffect ==
  ASSUME TypeOK, NEW st \in CounterRecords, Len(buffer) >= 2, Resync(st)
  PROVE  /\ buffer' \in Seq(Byte)
         /\ Len(buffer') < Len(buffer)
         /\ stats' \in CounterRecords
         /\ stats'.discarded_bytes =
              Plus(st.discarded_bytes, Len(buffer) - Len(buffer'))
         /\ \A c \in Counters \ {"discarded_bytes"} : stats'[c] = st[c]
  <1>1. buffer \in Seq(Byte) /\ Len(buffer) \in Nat
    BY LenProperties DEF TypeOK
  <1>2. PICK k \in 0..Len(buffer) : ResyncPoint(buffer, k) /\ DiscardPrefix(k, st)
    BY DEF Resync
  <1>3. k >= 1
    BY <1>1, <1>2, ResyncProgress
  <1> QED
    BY <1>1, <1>2, <1>3, DiscardEffect

\* What one iteration of the parse loop does to the buffer and the counters,
\* in the three ways it can end: wait, throw bytes away, deliver a frame.
Waits == UNCHANGED <<buffer, stats, framed, delivered>>

ThrowsAway ==
  /\ Len(buffer') < Len(buffer)
  /\ stats'.discarded_bytes =
       Plus(stats.discarded_bytes, Len(buffer) - Len(buffer'))
  /\ UNCHANGED <<framed, delivered>>

Delivers ==
  /\ Len(buffer') = Len(buffer) - FrameLength(buffer)
  /\ framed' = framed + FrameLength(buffer)
  /\ stats' = Count(stats, "frames")
  /\ delivered' = Append(delivered, Candidate)
  /\ Candidate \in Seq(Byte)
  /\ FrameLength(buffer) \in Nat \ {0}
  /\ FrameLength(buffer) <= Len(buffer)

LEMMA ParseEffect ==
  ASSUME TypeOK, Parse
  PROVE  /\ buffer' \in Seq(Byte)
         /\ stats' \in CounterRecords
         /\ Waits \/ ThrowsAway \/ Delivers
  <1>1. /\ buffer \in Seq(Byte) /\ Len(buffer) \in Nat
        /\ stats \in CounterRecords
    BY LenProperties DEF TypeOK, CounterRecords
  <1>2. CASE DropStrayByte
    <2>1. 1 \in 0..Len(buffer)
      BY <1>2 DEF DropStrayByte
    <2> QED
      BY <1>1, <1>2, <2>1, DiscardEffect DEF DropStrayByte, ThrowsAway
  <1>3. CASE AwaitMore
    BY <1>1, <1>3 DEF AwaitMore, Waits
  <1>4. ASSUME NEW st \in CounterRecords, Len(buffer) >= 2, Resync(st),
               st.discarded_bytes = stats.discarded_bytes,
               UNCHANGED <<framed, delivered>>
        PROVE  /\ buffer' \in Seq(Byte)
               /\ stats' \in CounterRecords
               /\ ThrowsAway
    BY <1>4, ResyncEffect DEF ThrowsAway
  <1>5. \A c \in Counters \ {"discarded_bytes"} :
          /\ Count(stats, c) \in CounterRecords
          /\ Count(stats, c).discarded_bytes = stats.discarded_bytes
    BY <1>1, CountTyped DEF CounterRecords
  <1>6. HeaderRead => Len(buffer) >= 2
    BY <1>1, WireAssumption DEF HeaderRead
  <1>7. CASE RejectMagic
    BY <1>1, <1>4, <1>7 DEF RejectMagic
  <1>8. CASE RejectVersion
    BY <1>4, <1>5, <1>6, <1>8 DEF RejectVersion, Counters
  <1>9. CASE RejectLength
    BY <1>4, <1>5, <1>6, <1>9 DEF RejectLength, LengthRead, Counters
  <1>10. CASE RejectFrame
    BY <1>4, <1>5, <1>6, <1>10
       DEF RejectFrame, FrameRead, FrameComplete, FramePlausible, LengthRead, Counters
  <1>11. CASE EmitFrame
    <2>1. /\ Len(buffer) >= HeaderSize
          /\ Len(buffer) >= FrameLength(buffer)
      BY <1>11 DEF EmitFrame, FrameRead, FrameComplete, FramePlausible, LengthRead, HeaderRead
    <2>2. FrameLength(buffer) \in Nat \ {0}
      BY <1>1, <2>1, FrameLengthBounds, WireAssumption
    <2>3. /\ buffer' \in Seq(Byte)
          /\ Len(buffer') = Len(buffer) - FrameLength(buffer)
      BY <1>1, <1>11, <2>1, <2>2, DropPrefix DEF EmitFrame
    <2>4. Candidate \in Seq(Byte)
      <3>1. \A i \in 1..FrameLength(buffer) : buffer[i] \in Byte
        BY <1>1, <2>1, <2>2, ElementOfSeq
      <3> QED
        BY <2>2, <3>1, SubSeqProperties DEF Candidate
    <2>5. stats' \in CounterRecords
      BY <1>5, <1>11 DEF EmitFrame, Counters
    <2> QED
      BY <1>11, <2>1, <2>2, <2>3, <2>4, <2>5 DEF EmitFrame, Delivers
  <1> QED
    BY <1>2, <1>3, <1>7, <1>8, <1>9, <1>10, <1>11 DEF Parse

------------------------------------------------------------------------------
(***************************************************************************)
(* Type correctness.  A byte is read only while some are left: without     *)
(* this conjunct TypeOK is not inductive.                                  *)
(***************************************************************************)
TypeInv == TypeOK /\ (pc = "read" => input # <<>>)

LEMMA InitTypeInv == Init => TypeInv
  <1> SUFFICES ASSUME Init PROVE TypeInv
    OBVIOUS
  <1>1. [c \in Counters |-> 0] \in [Counters -> 0..(CounterMod - 1)]
    BY DecoderAssumption
  <1>2. MaxFrame \in Nat
    BY WireAssumption DEF MaxFrame
  <1> QED
    BY <1>1, <1>2, EmptySeq DEF Init, TypeInv, TypeOK

LEMMA StepTypeInv == TypeInv /\ [Next]_vars => TypeInv'
  <1> SUFFICES ASSUME TypeInv, [Next]_vars PROVE TypeInv'
    OBVIOUS
  <1>1. /\ buffer \in Seq(Byte) /\ Len(buffer) \in Nat
        /\ Len(buffer) <= MaxFrame
        /\ stats \in CounterRecords
        /\ input \in Seq(Byte)
        /\ delivered \in Seq(Seq(Byte))
        /\ MaxFrame \in Nat /\ MaxFrame >= 2
    BY LenProperties, WireAssumption DEF TypeInv, TypeOK, CounterRecords, MaxFrame
  <1>2. CASE Feed
    <2>1. input' \in Seq(Byte) /\ input' # <<>>
      BY <1>2, DecoderAssumption DEF Feed
    <2> QED
      BY <1>2, <2>1 DEF Feed, TypeInv, TypeOK
  <1>3. CASE ReadByte
    <2>1. input # <<>>
      BY <1>3 DEF ReadByte, TypeInv
    <2>2. Head(input) \in Byte /\ input' \in Seq(Byte)
      BY <1>1, <1>3, <2>1, HeadTailProperties DEF ReadByte
    <2>rest. /\ pc' = "parse"
           /\ received' \in Nat /\ emitted' \in Nat /\ framed' \in Nat
           /\ delivered' \in Seq(Seq(Byte))
      <3>1. /\ pc' = "parse" /\ received' = received + 1
            /\ emitted' = emitted /\ framed' = framed /\ delivered' = delivered
        BY <1>3 DEF ReadByte
      <3>2. /\ received \in Nat /\ emitted \in Nat /\ framed \in Nat
            /\ delivered \in Seq(Seq(Byte))
        BY DEF TypeInv, TypeOK
      <3> QED
        BY <3>1, <3>2
    <2>3. CASE Len(buffer) = MaxFrame
      <3>1. PICK k \in 0..Len(buffer) :
              /\ ResyncPoint(buffer, k)
              /\ buffer' = Append(SubSeq(buffer, k + 1, Len(buffer)), Head(input))
              /\ stats' = [stats EXCEPT !.discarded_bytes = Plus(@, k)]
        BY <1>3, <2>3 DEF ReadByte
      <3>2. k >= 1
        BY <1>1, <2>3, <3>1, ResyncProgress
      <3>3. /\ SubSeq(buffer, k + 1, Len(buffer)) \in Seq(Byte)
            /\ Len(SubSeq(buffer, k + 1, Len(buffer))) = Len(buffer) - k
        BY <1>1, DropPrefix
      <3>4. /\ buffer' \in Seq(Byte)
            /\ Len(buffer') = Len(buffer) - k + 1
        BY <2>2, <3>1, <3>3, AppendProperties
      <3>5. stats.discarded_bytes \in Nat /\ k \in Nat
        BY <1>1, DecoderAssumption DEF CounterRecords, Counters
      <3>6. Plus(stats.discarded_bytes, k) \in 0..(CounterMod - 1)
        BY <1>1, <3>5, PlusInRange
      <3>7. stats' \in CounterRecords
        BY <1>1, <3>1, <3>6 DEF CounterRecords, Counters
      <3>8. Len(buffer') <= MaxFrame
        BY <1>1, <3>2, <3>4, <3>5
      <3> QED
        BY <2>2, <2>rest, <3>4, <3>7, <3>8 DEF TypeInv, TypeOK, CounterRecords
    <2>4. CASE Len(buffer) # MaxFrame
      <3>1. buffer' = Append(buffer, Head(input)) /\ stats' = stats
        BY <1>3, <2>4 DEF ReadByte
      <3>2. /\ buffer' \in Seq(Byte)
            /\ Len(buffer') = Len(buffer) + 1
        BY <1>1, <2>2, <3>1, AppendProperties
      <3> QED
        BY <1>1, <2>2, <2>rest, <2>4, <3>1, <3>2
           DEF TypeInv, TypeOK, CounterRecords
    <2> QED
      BY <2>3, <2>4
  <1>4. CASE Parse
    <2>1. /\ buffer' \in Seq(Byte)
          /\ stats' \in CounterRecords
          /\ Waits \/ ThrowsAway \/ Delivers
      BY <1>4, ParseEffect DEF TypeInv
    <2>2. Len(buffer') <= Len(buffer) /\ Len(buffer') \in Nat
      BY <1>1, <2>1, LenProperties DEF Waits, ThrowsAway, Delivers
    <2>3. framed' \in Nat
      BY <2>1 DEF Waits, ThrowsAway, Delivers, TypeInv, TypeOK
    <2>out. delivered' \in Seq(Seq(Byte))
      <3>1. CASE Delivers
        BY <1>1, <3>1, AppendProperties DEF Delivers
      <3> QED
        BY <1>1, <2>1, <3>1 DEF Waits, ThrowsAway
    <2>4. emitted' \in Nat
      BY <1>4 DEF Parse, DropStrayByte, AwaitMore, RejectMagic, RejectVersion,
                  RejectLength, RejectFrame, EmitFrame, TypeInv, TypeOK
    <2>5. /\ pc' \in {"idle", "read", "parse"}
          /\ pc' = "read" => input # <<>>
      BY <1>4 DEF Parse, DropStrayByte, AwaitMore, RejectMagic, RejectVersion,
                  RejectLength, RejectFrame, EmitFrame, AfterShrink, AfterInput
    <2>6. UNCHANGED <<input, received>>
      BY <1>4 DEF Parse
    <2> QED
      BY <1>1, <2>1, <2>2, <2>3, <2>out, <2>4, <2>5, <2>6
         DEF TypeInv, TypeOK, CounterRecords
  <1>5. CASE GapReset
    <2>1. stats.discarded_bytes \in Nat
      BY <1>1, DecoderAssumption DEF CounterRecords, Counters
    <2>2. Plus(stats.discarded_bytes, Len(buffer)) \in 0..(CounterMod - 1)
      BY <1>1, <2>1, PlusInRange
    <2>3. /\ Count(stats, "gap_resets") \in CounterRecords
          /\ Count(stats, "gap_resets").discarded_bytes = stats.discarded_bytes
      BY <1>1, CountTyped DEF CounterRecords, Counters
    <2>4. stats' \in CounterRecords
      BY <1>5, <2>2, <2>3 DEF GapReset, CounterRecords, Counters
    <2>5. buffer' \in Seq(Byte) /\ Len(buffer') <= MaxFrame
      BY <1>1, <1>5, EmptySeq DEF GapReset
    <2> QED
      BY <1>5, <2>4, <2>5 DEF GapReset, TypeInv, TypeOK, CounterRecords
  <1>6. CASE UNCHANGED vars
    BY <1>6 DEF vars, TypeInv, TypeOK
  <1> QED
    BY <1>2, <1>3, <1>4, <1>5, <1>6 DEF Next

\* Every variable keeps its type.  In particular no write goes beyond the
\* MaxFrame bytes of decoder->buffer and no counter exceeds its width.
THEOREM TypeCorrect == Spec => []TypeOK
  <1>1. TypeInv => TypeOK
    BY DEF TypeInv
  <1> QED
    BY InitTypeInv, StepTypeInv, <1>1, PTL DEF Spec

------------------------------------------------------------------------------
(***************************************************************************)
(* What the decoder holds between two bytes.                               *)
(***************************************************************************)
LEMMA StepIdleCandidate ==
  TypeInv /\ TypeInv' /\ IdleCandidate /\ [Next]_vars => IdleCandidate'
  <1> SUFFICES ASSUME TypeInv, TypeInv', IdleCandidate, [Next]_vars
               PROVE  IdleCandidate'
    OBVIOUS
  <1>1. /\ buffer \in Seq(Byte) /\ Len(buffer) \in Nat
        /\ buffer' \in Seq(Byte) /\ Len(buffer') \in Nat
    BY LenProperties DEF TypeInv, TypeOK
  <1>2. ASSUME UNCHANGED buffer, pc # "parse"
        PROVE  IdleCandidate'
    BY <1>2 DEF IdleCandidate, FramePlausible, LengthRead, HeaderRead
  <1>3. CASE Feed
    BY <1>2, <1>3 DEF Feed
  <1>4. CASE ReadByte
    BY <1>4 DEF ReadByte, IdleCandidate
  <1>5. CASE Parse
    <2>1. CASE DropStrayByte
      <3>1. Len(buffer') = 0
        BY <1>1, <2>1, DropPrefix DEF DropStrayByte, DiscardPrefix
      <3> QED
        BY <3>1 DEF IdleCandidate
    <2>2. CASE AwaitMore
      <3>1. UNCHANGED buffer
        BY <2>2 DEF AwaitMore
      <3>2. CASE Len(buffer) = 1
        BY <3>1, <3>2 DEF IdleCandidate
      <3>3. CASE Len(buffer) \in 2..(HeaderSize - 1) /\ HasMagic(buffer)
        BY <1>1, <3>1, <3>3, WireAssumption DEF IdleCandidate
      <3>4. CASE FramePlausible /\ ~FrameComplete
        <4>1. Len(buffer) >= HeaderSize
          BY <3>4 DEF FramePlausible, LengthRead, HeaderRead
        <4>2. Len(buffer) < FrameLength(buffer)
          BY <1>1, <3>4, <4>1, FrameLengthBounds DEF FrameComplete
        <4> QED
          BY <3>1, <3>4, <4>2 DEF IdleCandidate, FramePlausible, LengthRead, HeaderRead
      <3> QED
        BY <2>2, <3>2, <3>3, <3>4 DEF AwaitMore
    <2>3. ASSUME pc' = AfterShrink
          PROVE  IdleCandidate'
      BY <1>1, <2>3 DEF AfterShrink, IdleCandidate
    <2> QED
      BY <1>5, <2>1, <2>2, <2>3
         DEF Parse, RejectMagic, RejectVersion, RejectLength, RejectFrame, EmitFrame
  <1>6. CASE GapReset
    <2>1. Len(buffer') = 0
      BY <1>6, EmptySeq DEF GapReset
    <2> QED
      BY <2>1 DEF IdleCandidate
  <1>7. CASE UNCHANGED vars
    BY <1>2, <1>7 DEF vars, IdleCandidate
  <1> QED
    BY <1>3, <1>4, <1>5, <1>6, <1>7 DEF Next

LEMMA InitIdleCandidate == Init => IdleCandidate
  BY EmptySeq DEF Init, IdleCandidate

\* Between two bytes the buffer holds at most one unfinished candidate: the
\* parse loop of oomwoo_stream_decoder_feed leaves nothing undecided.
THEOREM CandidateOnly == Spec => []IdleCandidate
  <1>1. Init => TypeInv /\ IdleCandidate
    BY InitTypeInv, InitIdleCandidate
  <1>2. TypeInv /\ IdleCandidate /\ [Next]_vars => (TypeInv /\ IdleCandidate)'
    BY StepTypeInv, StepIdleCandidate
  <1> QED
    BY <1>1, <1>2, PTL DEF Spec

\* An unfinished candidate leaves room for the next byte.
LEMMA RoomLeft ==
  ASSUME TypeInv, IdleCandidate, pc # "parse"
  PROVE  Len(buffer) < MaxFrame
  <1>1. /\ buffer \in Seq(Byte) /\ Len(buffer) \in Nat
        /\ HeaderSize + CrcSize <= MaxFrame /\ MaxFrame \in Nat
    BY LenProperties, WireAssumption DEF TypeInv, TypeOK, MaxFrame
  <1>2. CASE Len(buffer) < HeaderSize
    BY <1>1, <1>2, WireAssumption
  <1>3. CASE Len(buffer) >= HeaderSize
    <2>1. FramePlausible /\ Len(buffer) < FrameLength(buffer)
      BY <1>1, <1>3, WireAssumption DEF IdleCandidate
    <2>2. FrameLength(buffer) \in Nat /\ FrameLength(buffer) <= MaxFrame
      BY <1>1, <1>3, <2>1, FrameLengthBounds DEF FramePlausible
    <2> QED
      BY <1>1, <2>1, <2>2
  <1> QED
    BY <1>1, <1>2, <1>3, WireAssumption

\* The full-buffer guard of oomwoo_stream_decoder_feed is never taken: no
\* candidate is ever thrown away for want of room.
THEOREM NeverFull == Spec => []RoomForByte
  <1>1. TypeInv /\ IdleCandidate => RoomForByte
    BY RoomLeft DEF RoomForByte
  <1>2. Init => TypeInv /\ IdleCandidate
    BY InitTypeInv, InitIdleCandidate
  <1>3. TypeInv /\ IdleCandidate /\ [Next]_vars => (TypeInv /\ IdleCandidate)'
    BY StepTypeInv, StepIdleCandidate
  <1> QED
    BY <1>1, <1>2, <1>3, PTL DEF Spec

------------------------------------------------------------------------------
(***************************************************************************)
(* What the parse loop does with a frame that stands at the head.          *)
(***************************************************************************)

\* A frame the decoder accepts has a header, and fits the buffer.
LEMMA AcceptedFits ==
  ASSUME NEW r \in Seq(Byte), DecodeResult(r) = "OK"
  PROVE  Len(r) >= HeaderSize + CrcSize /\ Len(r) <= MaxFrame
  <1>1. Len(r) \in Nat /\ HeaderSize \in Nat /\ CrcSize \in Nat
    BY WireAssumption, LenProperties
  <1>2. Len(r) >= HeaderSize + CrcSize
    BY <1>1 DEF DecodeResult
  <1>3. PayloadLength(r) \in Nat /\ MaxPayload \in Nat
    BY <1>1, <1>2, FrameLengthBounds, WireAssumption
  <1>4. ~ (PayloadLength(r) > MaxPayload) /\ Len(r) = FrameLength(r)
    BY DEF DecodeResult
  <1>5. FrameLength(r) <= MaxFrame
    BY <1>1, <1>2, <1>3, <1>4, FrameLengthBounds
  <1> QED
    BY <1>2, <1>4, <1>5

\* The beginning of a frame is kept until the frame is there, and then the frame
\* is what the callback gets.
LEMMA FrameAtHead ==
  ASSUME TypeInv, Parse,
         NEW r \in Seq(Byte), DecodeResult(r) = "OK",
         Len(buffer) <= Len(r),
         \A i \in 1..Len(buffer) : buffer[i] = r[i]
  PROVE  \/ AwaitMore /\ Len(buffer) < Len(r)
         \/ EmitFrame /\ Candidate = r
  <1>1. /\ buffer \in Seq(Byte) /\ Len(buffer) \in Nat /\ Len(r) \in Nat
        /\ HeaderSize \in Nat /\ HeaderSize >= 5 /\ CrcSize \in Nat \ {0}
    BY LenProperties, WireAssumption DEF TypeInv, TypeOK
  <1>2. /\ Len(r) >= HeaderSize + CrcSize
        /\ r[1] = Magic0 /\ r[2] = Magic1 /\ r[3] = ProtocolVersion
        /\ PayloadLength(r) <= MaxPayload
        /\ Len(r) = FrameLength(r)
    <2>1. Len(r) >= HeaderSize + CrcSize
      BY <1>1 DEF DecodeResult
    <2>2. PayloadLength(r) \in Nat /\ MaxPayload \in Nat
      BY <1>1, <2>1, FrameLengthBounds, WireAssumption
    <2>3. /\ HasMagic(r) /\ r[3] = ProtocolVersion
          /\ ~ (PayloadLength(r) > MaxPayload)
          /\ Len(r) = FrameLength(r)
      BY DEF DecodeResult
    <2> QED
      BY <2>1, <2>2, <2>3 DEF HasMagic
  <1>3. Len(buffer) >= 1 => buffer[1] = Magic0
    BY <1>1, <1>2
  <1>4. Len(buffer) >= 2 => HasMagic(buffer)
    <2> HAVE Len(buffer) >= 2
    <2>1. 1 \in 1..Len(buffer) /\ 2 \in 1..Len(buffer)
      BY <1>1
    <2> QED
      BY <1>2, <2>1 DEF HasMagic
  <1>5. Len(buffer) >= HeaderSize =>
          /\ buffer[3] = ProtocolVersion
          /\ PayloadLength(buffer) <= MaxPayload
          /\ FrameLength(buffer) = Len(r)
    <2> HAVE Len(buffer) >= HeaderSize
    <2>1. /\ 3 \in 1..Len(buffer)
          /\ HeaderSize - 1 \in 1..Len(buffer) /\ HeaderSize \in 1..Len(buffer)
          /\ HeaderSize - 1 + 1 = HeaderSize
      BY <1>1
    <2>2. PayloadLength(buffer) = PayloadLength(r)
      BY <2>1 DEF PayloadLength, ReadU16
    <2> QED
      BY <1>2, <2>1, <2>2 DEF FrameLength
  <1>6. FrameRead => Candidate = r
    <2> HAVE FrameRead
    <2>1. Len(buffer) = Len(r) /\ FrameLength(buffer) = Len(buffer)
      BY <1>1, <1>5 DEF FrameRead, FrameComplete, FramePlausible, LengthRead, HeaderRead
    <2>2. SubSeq(buffer, 1, Len(buffer)) = buffer
      BY <1>1, SubSeqFull
    <2>3. buffer = r
      BY <1>1, <2>1, SeqEqual
    <2> QED
      BY <2>1, <2>2, <2>3 DEF Candidate
  <1>7. /\ ~ DropStrayByte /\ ~ RejectMagic /\ ~ RejectVersion
        /\ ~ RejectLength /\ ~ RejectFrame
    <2>1. ~ DropStrayByte
      BY <1>1, <1>3 DEF DropStrayByte
    <2>2. ~ RejectMagic
      BY <1>4 DEF RejectMagic
    <2>3. ~ RejectVersion
      BY <1>5 DEF RejectVersion, HeaderRead
    <2>4. ~ RejectLength
      <3> SUFFICES ASSUME RejectLength PROVE FALSE
        OBVIOUS
      <3>1. Len(buffer) >= HeaderSize /\ PayloadLength(buffer) > MaxPayload
        BY DEF RejectLength, LengthRead, HeaderRead
      <3>2. PayloadLength(buffer) \in Nat /\ MaxPayload \in Nat
        BY <1>1, <3>1, FrameLengthBounds, WireAssumption
      <3> QED
        BY <1>5, <3>1, <3>2
    <2>5. ~ RejectFrame
      BY <1>6 DEF RejectFrame
    <2> QED
      BY <2>1, <2>2, <2>3, <2>4, <2>5
  <1>8. AwaitMore => Len(buffer) < Len(r)
    BY <1>1, <1>2, <1>5
       DEF AwaitMore, FrameComplete, FramePlausible, LengthRead, HeaderRead
  <1>9. EmitFrame => Candidate = r
    BY <1>6 DEF EmitFrame
  <1> QED
    BY <1>7, <1>8, <1>9 DEF Parse

LEMMA ParseLeavesInput ==
  Parse => input' = input /\ (pc' = "idle" => input = <<>>)
  BY DEF Parse, DropStrayByte, AwaitMore, RejectMagic, RejectVersion, RejectLength,
         RejectFrame, EmitFrame, AfterShrink, AfterInput

\* A byte that moves from the head of one queue to the end of another.
LEMMA ByteMoves ==
  ASSUME NEW S, NEW b \in Seq(S), NEW q \in Seq(S), NEW c \in Seq(S), q # <<>>
  PROVE  /\ Append(b, Head(q)) \o Tail(q) \o c = b \o q \o c
         /\ b \o <<Head(q)>> \o Tail(q) = b \o q
  <1> DEFINE x == Head(q)
  <1>1. x \in S /\ Tail(q) \in Seq(S) /\ Len(Tail(q)) = Len(q) - 1
        /\ \A i \in 1..Len(Tail(q)) : Tail(q)[i] = q[i + 1]
    BY HeadTailProperties
  <1>2. /\ Len(b) \in Nat /\ Len(q) \in Nat \ {0} /\ x = q[1]
    BY LenProperties, EmptySeq
  <1> HIDE DEF x
  <1>3. /\ Append(b, x) \in Seq(S) /\ Len(Append(b, x)) = Len(b) + 1
        /\ Append(b, x)[Len(b) + 1] = x
        /\ \A i \in 1..Len(b) : Append(b, x)[i] = b[i]
    BY <1>1, <1>2, AppendProperties
  <1>4. /\ Append(b, x) \o Tail(q) \in Seq(S) /\ b \o q \in Seq(S)
        /\ Len(Append(b, x) \o Tail(q)) = Len(b) + Len(q)
        /\ Len(b \o q) = Len(b) + Len(q)
        /\ \A i \in 1..Len(b) + Len(q) : (Append(b, x) \o Tail(q))[i]
             = IF i <= Len(b) + 1 THEN Append(b, x)[i] ELSE Tail(q)[i - (Len(b) + 1)]
        /\ \A i \in 1..Len(b) + Len(q) : (b \o q)[i]
             = IF i <= Len(b) THEN b[i] ELSE q[i - Len(b)]
    <2>1. /\ Append(b, x) \o Tail(q) \in Seq(S)
          /\ Len(Append(b, x) \o Tail(q)) = Len(Append(b, x)) + Len(Tail(q))
          /\ \A i \in 1..Len(Append(b, x)) + Len(Tail(q)) : (Append(b, x) \o Tail(q))[i]
               = IF i <= Len(Append(b, x)) THEN Append(b, x)[i]
                 ELSE Tail(q)[i - Len(Append(b, x))]
      BY <1>1, <1>3, ConcatProperties
    <2>2. Len(Append(b, x)) + Len(Tail(q)) = Len(b) + Len(q)
      BY <1>1, <1>2, <1>3
    <2> QED
      BY <1>3, <2>1, <2>2, ConcatProperties
  <1>5. ASSUME NEW i \in 1..Len(b) + Len(q)
        PROVE  (Append(b, x) \o Tail(q))[i] = (b \o q)[i]
    <2>1. CASE i <= Len(b)
      BY <1>2, <1>3, <1>4, <2>1
    <2>2. CASE i = Len(b) + 1
      <3>1. (Append(b, x) \o Tail(q))[i] = x
        BY <1>2, <1>3, <1>4, <2>2
      <3>2. (b \o q)[i] = q[1]
        BY <1>2, <1>4, <2>2
      <3> QED
        BY <1>2, <3>1, <3>2
    <2>3. CASE i > Len(b) + 1
      <3>1. i - (Len(b) + 1) \in 1..Len(Tail(q)) /\ i - (Len(b) + 1) + 1 = i - Len(b)
        BY <1>1, <1>2, <2>3
      <3> QED
        BY <1>1, <1>2, <1>4, <2>3, <3>1
    <2> QED
      BY <1>2, <2>1, <2>2, <2>3
  <1>6. Append(b, x) \o Tail(q) = b \o q
    BY <1>4, <1>5, SeqEqual
  <1>7. b \o <<x>> = Append(b, x)
    BY <1>1
  <1> QED
    BY <1>6, <1>7 DEF x

\* How the bytes of the line move, for the provers to cite without a set S.
LEMMA ByteMovesOn ==
  ASSUME NEW b \in Seq(Byte), NEW q \in Seq(Byte), NEW c \in Seq(Byte), q # <<>>
  PROVE  /\ Append(b, Head(q)) \o Tail(q) \o c = b \o q \o c
         /\ b \o <<Head(q)>> \o Tail(q) = b \o q
  BY ByteMoves

LEMMA JoinBytes ==
  ASSUME NEW s \in Seq(Byte), NEW t \in Seq(Byte), NEW u \in Seq(Byte)
  PROVE  (s \o t) \o u = s \o (t \o u)
  BY ConcatAssociative

------------------------------------------------------------------------------
(***************************************************************************)
(* A feed call comes to its end.                                           *)
(***************************************************************************)
\* The one iteration that leaves the buffer as it is leaves the loop.
LEMMA WaitingEnds ==
  ASSUME TypeInv, Parse, ~(Len(buffer') < Len(buffer))
  PROVE  pc' # "parse"
  <1>1. buffer \in Seq(Byte) /\ Len(buffer) \in Nat /\ stats \in CounterRecords
    BY LenProperties DEF TypeInv, TypeOK, CounterRecords
  <1>2. HeaderRead => Len(buffer) >= 2
    BY <1>1, WireAssumption DEF HeaderRead
  <1>3. ASSUME NEW st \in CounterRecords, Len(buffer) >= 2, Resync(st)
        PROVE  FALSE
    BY <1>3, ResyncEffect DEF TypeInv
  <1>4. \A c \in Counters : Count(stats, c) \in CounterRecords
    BY <1>1, CountTyped DEF CounterRecords
  <1>5. ~ RejectMagic
    BY <1>1, <1>3 DEF RejectMagic
  <1>6. ~ RejectVersion
    BY <1>2, <1>3, <1>4 DEF RejectVersion, Counters
  <1>7. ~ RejectLength
    BY <1>2, <1>3, <1>4 DEF RejectLength, LengthRead, Counters
  <1>8. ~ RejectFrame
    BY <1>2, <1>3, <1>4
       DEF RejectFrame, FrameRead, FrameComplete, FramePlausible, LengthRead, Counters
  <1>9. ~ EmitFrame
    <2> SUFFICES ASSUME EmitFrame PROVE FALSE
      OBVIOUS
    <2>1. Len(buffer) >= HeaderSize /\ Len(buffer) >= FrameLength(buffer)
      BY DEF EmitFrame, FrameRead, FrameComplete, FramePlausible, LengthRead, HeaderRead
    <2>2. FrameLength(buffer) \in Nat \ {0}
      BY <1>1, <2>1, FrameLengthBounds, WireAssumption
    <2>3. Len(buffer') = Len(buffer) - FrameLength(buffer)
      BY <1>1, <2>1, <2>2, DropPrefix DEF EmitFrame
    <2> QED
      BY <1>1, <2>2, <2>3
  <1> QED
    BY <1>5, <1>6, <1>7, <1>8, <1>9
       DEF Parse, DropStrayByte, AwaitMore, AfterInput

LEMMA StepFeedAdvances ==
  ASSUME TypeInv, pc # "idle", Next
  PROVE  Work' < Work
  <1>1. /\ buffer \in Seq(Byte) /\ Len(buffer) \in Nat
        /\ input \in Seq(Byte) /\ Len(input) \in Nat
    BY LenProperties DEF TypeInv, TypeOK
  <1>2. CASE ReadByte
    <2>1. input # <<>> /\ Head(input) \in Byte
      BY <1>1, <1>2, HeadTailProperties DEF ReadByte, TypeInv
    <2>2. Len(input') = Len(input) - 1 /\ Len(input') \in Nat
      BY <1>1, <1>2, <2>1, HeadTailProperties, LenProperties DEF ReadByte
    <2>3. Len(buffer') \in Nat /\ Len(buffer') <= Len(buffer) + 1
      <3>1. CASE Len(buffer) = MaxFrame
        <4>1. PICK k \in 0..Len(buffer) :
                buffer' = Append(SubSeq(buffer, k + 1, Len(buffer)), Head(input))
          BY <1>2, <3>1 DEF ReadByte
        <4>2. /\ SubSeq(buffer, k + 1, Len(buffer)) \in Seq(Byte)
              /\ Len(SubSeq(buffer, k + 1, Len(buffer))) = Len(buffer) - k
          BY <1>1, DropPrefix
        <4>3. Len(buffer') = Len(buffer) - k + 1
          BY <2>1, <4>1, <4>2, AppendProperties
        <4> QED
          BY <1>1, <4>3
      <3>2. CASE Len(buffer) # MaxFrame
        BY <1>1, <1>2, <2>1, <3>2, AppendProperties DEF ReadByte
      <3> QED
        BY <3>1, <3>2
    <2>4. pc = "read" /\ pc' = "parse"
      BY <1>2 DEF ReadByte
    <2> QED
      BY <1>1, <2>2, <2>3, <2>4 DEF Work
  <1>3. CASE Parse
    <2>1. /\ pc = "parse" /\ input' = input
          /\ pc' \in {"idle", "read", "parse"}
      BY <1>3 DEF Parse, DropStrayByte, AwaitMore, RejectMagic, RejectVersion,
                  RejectLength, RejectFrame, EmitFrame, AfterShrink, AfterInput
    <2>2. buffer' \in Seq(Byte) /\ Len(buffer') \in Nat
      BY <1>3, ParseEffect, LenProperties DEF TypeInv
    <2>3. CASE Len(buffer') < Len(buffer)
      BY <1>1, <2>1, <2>2, <2>3 DEF Work
    <2>4. CASE ~(Len(buffer') < Len(buffer))
      <3>1. Waits
        <4>1. Waits \/ ThrowsAway \/ Delivers
          BY <1>3, ParseEffect DEF TypeInv
        <4> QED
          BY <1>1, <2>2, <2>4, <4>1 DEF ThrowsAway, Delivers
      <3>2. buffer' = buffer /\ delivered' = delivered
        BY <3>1 DEF Waits
      <3>3. pc' # "parse"
        BY <1>3, <2>4, <3>2, WaitingEnds
      <3> QED
        BY <1>1, <2>1, <3>2, <3>3 DEF Work
    <2> QED
      BY <2>3, <2>4
  <1> QED
    BY <1>2, <1>3 DEF Next, Feed, GapReset

\* Every step of a feed call leaves less to do.
THEOREM CallsAdvance == Spec => FeedAdvances
  <1>1. TypeInv /\ [Next]_vars => [pc # "idle" => Work' < Work]_vars
    BY StepFeedAdvances
  <1> QED
    BY InitTypeInv, StepTypeInv, <1>1, PTL DEF Spec, FeedAdvances

------------------------------------------------------------------------------
(***************************************************************************)
(* Errors and bytes are accounted for.                                     *)
(***************************************************************************)
LEMMA StepErrorsDiscard ==
  ASSUME TypeInv, [Next]_vars,
         NEW c \in {"crc_errors", "version_errors", "length_errors"},
         stats'[c] # stats[c]
  PROVE  Len(buffer') < Len(buffer)
  <1>1. /\ TypeOK /\ stats \in CounterRecords
        /\ c \in Counters \ {"discarded_bytes", "frames", "gap_resets"}
    BY DEF TypeInv, TypeOK, CounterRecords, Counters
  <1>2. ~ UNCHANGED stats
    OBVIOUS
  <1>3. CASE ReadByte
    BY <1>1, <1>3 DEF ReadByte, CounterRecords, Counters
  <1>4. CASE Parse
    <2>1. Waits \/ ThrowsAway \/ Delivers
      BY <1>1, <1>4, ParseEffect
    <2>2. ~ Delivers
      BY <1>1 DEF Delivers, Count, CounterRecords, Counters
    <2> QED
      BY <1>2, <2>1, <2>2 DEF Waits, ThrowsAway
  <1>5. CASE GapReset
    BY <1>1, <1>5 DEF GapReset, Count, CounterRecords, Counters
  <1> QED
    BY <1>2, <1>3, <1>4, <1>5 DEF Next, Feed, vars

\* An error counter never moves without the candidate's head being dropped:
\* one bad candidate is counted once.
THEOREM ErrorsCountedOnce == Spec => ErrorsDiscard
  <1>1. TypeInv /\ [Next]_vars
          => [\A c \in {"crc_errors", "version_errors", "length_errors"} :
                stats'[c] # stats[c] => Len(buffer') < Len(buffer)]_vars
    BY StepErrorsDiscard
  <1> QED
    BY InitTypeInv, StepTypeInv, <1>1, PTL DEF Spec, ErrorsDiscard

\* Division with remainder, and its uniqueness.
LEMMA DivMod ==
  ASSUME NEW m \in Nat \ {0}, NEW n \in Nat
  PROVE  /\ n \div m \in Nat
         /\ n % m \in 0..(m - 1)
         /\ n = m * (n \div m) + (n % m)
  OBVIOUS

LEMMA NextMultiple ==
  ASSUME NEW m \in Nat \ {0}, NEW q \in Nat, NEW p \in Nat, q < p
  PROVE  m * q + m <= m * p
  <1>1. PICK d \in Nat : p = q + 1 + d
    <2>1. p - q - 1 \in Nat /\ p = q + 1 + (p - q - 1)
      OBVIOUS
    <2> QED
      BY <2>1
  <1>2. m * p = m * q + m + m * d
    BY <1>1
  <1>3. m * q \in Nat /\ m * d \in Nat
    BY <1>1, ProductNat
  <1> QED
    BY <1>2, <1>3

LEMMA RemainderUnique ==
  ASSUME NEW m \in Nat \ {0}, NEW q \in Nat, NEW p \in Nat,
         NEW r \in 0..(m - 1), NEW s \in 0..(m - 1),
         m * q + r = m * p + s
  PROVE  r = s
  <1>1. m * q \in Nat /\ m * p \in Nat
    BY ProductNat
  <1>2. CASE q < p
    BY <1>1, <1>2, NextMultiple
  <1>3. CASE p < q
    BY <1>1, <1>3, NextMultiple
  <1>4. CASE p = q
    BY <1>1, <1>4
  <1> QED
    BY <1>2, <1>3, <1>4

\* Reducing before an addition makes no difference after it.
LEMMA ModPlus ==
  ASSUME NEW m \in Nat \ {0}, NEW a \in Nat, NEW k \in Nat
  PROVE  ((a % m) + k) % m = (a + k) % m
  <1> DEFINE q == a \div m
             r == a % m
             p == (r + k) \div m
             s == (r + k) % m
             u == (a + k) \div m
             t == (a + k) % m
  <1>1. q \in Nat /\ r \in 0..(m - 1) /\ a = m * q + r
    BY DivMod
  <1>2. r + k \in Nat /\ a + k \in Nat
    BY <1>1
  <1>3. p \in Nat /\ s \in 0..(m - 1) /\ r + k = m * p + s
    BY <1>2, DivMod
  <1>4. u \in Nat /\ t \in 0..(m - 1) /\ a + k = m * u + t
    BY <1>2, DivMod
  <1> HIDE DEF q, r, p, s, u, t
  <1>5. m * (q + p) = m * q + m * p /\ q + p \in Nat
    BY <1>1, <1>3
  <1>6. m * (q + p) + s = m * u + t
    BY <1>1, <1>3, <1>4, <1>5
  <1>7. s = t
    BY <1>3, <1>4, <1>5, <1>6, RemainderUnique
  <1> QED
    BY <1>7 DEF s, t, r

\* The wrapped discard counter keeps the balance.
LEMMA DiscardBalance ==
  ASSUME NEW d \in Nat, NEW n \in Nat, NEW f \in Nat, NEW l \in Nat
  PROVE  (Plus(d, n) + f + l) % CounterMod = (d + n + f + l) % CounterMod
  <1>1. CounterMod \in Nat \ {0} /\ d + n \in Nat /\ f + l \in Nat
    BY DecoderAssumption
  <1>2. (((d + n) % CounterMod) + (f + l)) % CounterMod
          = ((d + n) + (f + l)) % CounterMod
    BY <1>1, ModPlus
  <1>3. Plus(d, n) \in Nat
    BY PlusInRange, DecoderAssumption
  <1>4. Plus(d, n) + f + l = Plus(d, n) + (f + l)
        /\ d + n + f + l = (d + n) + (f + l)
    BY <1>3
  <1> QED
    BY <1>2, <1>4 DEF Plus

LEMMA StepByteAccounting ==
  TypeInv /\ TypeInv' /\ ByteAccounting /\ [Next]_vars => ByteAccounting'
  <1> SUFFICES ASSUME TypeInv, TypeInv', ByteAccounting, [Next]_vars
               PROVE  ByteAccounting'
    OBVIOUS
  <1> DEFINE d == stats.discarded_bytes
  <1>1. /\ TypeOK /\ buffer \in Seq(Byte)
        /\ Len(buffer) \in Nat /\ Len(buffer') \in Nat
        /\ stats \in CounterRecords
        /\ d \in Nat
        /\ framed \in Nat
        /\ received \in Nat
    BY LenProperties, DecoderAssumption
       DEF TypeInv, TypeOK, CounterRecords, Counters
  <1>2. (d + framed + Len(buffer)) % CounterMod = received % CounterMod
    BY DEF ByteAccounting
  <1>3. ASSUME NEW n \in Nat, d' = Plus(d, n), UNCHANGED <<framed, received>>,
               Len(buffer) = Len(buffer') + n
        PROVE  ByteAccounting'
    <2>1. (Plus(d, n) + framed + Len(buffer')) % CounterMod
            = (d + n + framed + Len(buffer')) % CounterMod
      <3>1. d \in Nat /\ n \in Nat /\ framed \in Nat /\ Len(buffer') \in Nat
        BY <1>1, <1>3
      <3> HIDE DEF d
      <3> QED
        BY <3>1, DiscardBalance
    <2>2. d + n + framed + Len(buffer') = d + framed + Len(buffer)
      BY <1>1, <1>3
    <2> QED
      BY <1>2, <1>3, <2>1, <2>2 DEF ByteAccounting
  <1>4. CASE Feed
    BY <1>2, <1>4 DEF Feed, ByteAccounting
  <1>5. CASE ReadByte
    <2>1. PICK n \in Nat : /\ d' = Plus(d, n) \/ (n = 0 /\ d' = d)
                           /\ Len(buffer') + n = Len(buffer) + 1
      <3>1. input # <<>>
        BY <1>5 DEF TypeInv, ReadByte
      <3>2. Head(input) \in Byte
        BY <3>1, HeadTailProperties DEF TypeInv, TypeOK
      <3>3. CASE Len(buffer) = MaxFrame
        <4>1. PICK k \in 0..Len(buffer) :
                /\ buffer' = Append(SubSeq(buffer, k + 1, Len(buffer)), Head(input))
                /\ stats' = [stats EXCEPT !.discarded_bytes = Plus(@, k)]
          BY <1>5, <3>3 DEF ReadByte
        <4>2. /\ SubSeq(buffer, k + 1, Len(buffer)) \in Seq(Byte)
              /\ Len(SubSeq(buffer, k + 1, Len(buffer))) = Len(buffer) - k
          BY <1>1, DropPrefix
        <4>3. Len(buffer') = Len(buffer) - k + 1
          BY <3>2, <4>1, <4>2, AppendProperties
        <4>4. d' = Plus(d, k)
          BY <1>1, <4>1 DEF CounterRecords, Counters
        <4>5. k \in Nat
          BY <1>1
        <4> QED
          BY <1>1, <4>3, <4>4, <4>5
      <3>4. CASE Len(buffer) # MaxFrame
        <4>1. buffer' = Append(buffer, Head(input)) /\ stats' = stats
          BY <1>5, <3>4 DEF ReadByte
        <4>2. Len(buffer') = Len(buffer) + 1
          BY <1>1, <3>2, <4>1, AppendProperties
        <4> QED
          BY <1>1, <4>1, <4>2
      <3> QED
        BY <3>3, <3>4
    <2>2. (d' + framed + Len(buffer')) % CounterMod
            = (d + n + framed + Len(buffer')) % CounterMod
      <3>1. CASE d' = Plus(d, n)
        <4>1. d \in Nat /\ n \in Nat /\ framed \in Nat /\ Len(buffer') \in Nat
          BY <1>1, <2>1
        <4>2. (Plus(d, n) + framed + Len(buffer')) % CounterMod
                = (d + n + framed + Len(buffer')) % CounterMod
          <5> HIDE DEF d
          <5> QED
            BY <4>1, DiscardBalance
        <4> QED
          BY <3>1, <4>2
      <3>2. CASE n = 0 /\ d' = d
        BY <1>1, <3>2
      <3> QED
        BY <2>1, <3>1, <3>2
    <2>3. d + n + framed + Len(buffer') = (d + framed + Len(buffer)) + 1
      BY <1>1, <2>1
    <2>4. CounterMod \in Nat \ {0} /\ d + framed + Len(buffer) \in Nat
      BY <1>1, DecoderAssumption
    <2>5. ((d + framed + Len(buffer)) + 1) % CounterMod
            = (received + 1) % CounterMod
      <3>1. 1 \in Nat
        OBVIOUS
      <3>2. (((d + framed + Len(buffer)) % CounterMod) + 1) % CounterMod
              = ((d + framed + Len(buffer)) + 1) % CounterMod
        BY <2>4, <3>1, ModPlus, Zenon
      <3>3. ((received % CounterMod) + 1) % CounterMod
              = (received + 1) % CounterMod
        BY <1>1, <2>4, <3>1, ModPlus, Zenon
      <3> QED
        BY <1>2, <3>2, <3>3, Zenon
    <2> QED
      BY <1>5, <2>2, <2>3, <2>5 DEF ReadByte, ByteAccounting
  <1>6. CASE Parse
    <2>1. Waits \/ ThrowsAway \/ Delivers
      BY <1>1, <1>6, ParseEffect
    <2>2. received' = received
      BY <1>6 DEF Parse
    <2>3. CASE Waits
      BY <1>2, <2>2, <2>3 DEF Waits, ByteAccounting
    <2>4. CASE ThrowsAway
      <3>1. Len(buffer) - Len(buffer') \in Nat
        BY <1>1, <2>4 DEF ThrowsAway
      <3>2. Len(buffer) = Len(buffer') + (Len(buffer) - Len(buffer'))
        BY <1>1
      <3> QED
        BY <1>3, <2>2, <2>4, <3>1, <3>2 DEF ThrowsAway
    <2>5. CASE Delivers
      <3>1. d' = d
        BY <1>1, <2>5, CountTyped DEF Delivers, CounterRecords, Counters
      <3>2. d + framed' + Len(buffer') = d + framed + Len(buffer)
        BY <1>1, <2>5 DEF Delivers
      <3> QED
        BY <1>2, <2>2, <3>1, <3>2 DEF ByteAccounting
    <2> QED
      BY <2>1, <2>3, <2>4, <2>5
  <1>7. CASE GapReset
    <2>1. /\ Count(stats, "gap_resets") \in CounterRecords
          /\ Count(stats, "gap_resets").discarded_bytes = d
      BY <1>1, CountTyped DEF CounterRecords, Counters
    <2>2. d' = Plus(d, Len(buffer))
      BY <1>7, <2>1 DEF GapReset, CounterRecords, Counters
    <2>3. Len(buffer') = 0
      BY <1>7, EmptySeq DEF GapReset
    <2> QED
      BY <1>1, <1>3, <1>7, <2>2, <2>3 DEF GapReset
  <1>8. CASE UNCHANGED vars
    BY <1>2, <1>8 DEF vars, ByteAccounting
  <1> QED
    BY <1>4, <1>5, <1>6, <1>7, <1>8 DEF Next

\* No byte is lost unaccounted for: every byte fed is in the buffer, in a
\* delivered frame or in discarded_bytes, modulo the counter's width.
THEOREM BytesAccounted == Spec => []ByteAccounting
  <1>1. Init => ByteAccounting
    BY EmptySeq, DecoderAssumption DEF Init, ByteAccounting, Counters
  <1>2. TypeInv /\ ByteAccounting /\ [Next]_vars => (TypeInv /\ ByteAccounting)'
    BY StepTypeInv, StepByteAccounting
  <1> QED
    BY InitTypeInv, <1>1, <1>2, PTL DEF Spec
=============================================================================
