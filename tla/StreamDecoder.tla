--------------------------- MODULE StreamDecoder ----------------------------
(***************************************************************************)
(* The stream decoder of oomwoo_protocol.c: oomwoo_stream_decoder_feed as  *)
(* the steps of its loops (one action per iteration), and                  *)
(* oomwoo_stream_decoder_reset_incomplete between two calls.               *)
(*                                                                         *)
(* A feed call appends one byte of its input, then runs the parse loop     *)
(* until an iteration leaves `processing` at 0, then takes the next byte.  *)
(***************************************************************************)
EXTENDS WireFormat

CONSTANTS
  CounterMod,    \* 2^32 in the firmware: the counters are uint32_t
  Chunks,        \* the byte sequences one feed call may bring
  MaxReceived    \* bound: bytes fed during a behaviour

ASSUME DecoderAssumption ==
  /\ CounterMod \in Nat /\ CounterMod > 1
  /\ \A data \in Chunks : data \in Seq(Byte) /\ data # <<>>
  /\ MaxReceived \in Nat

VARIABLES
  buffer,        \* decoder->buffer[0 .. buffered_bytes - 1]
  stats,         \* decoder->stats
  input,         \* bytes of the running feed call not yet appended
  emitted,       \* the count the running, or last, feed call returns
  pc,            \* "idle" | "read" | "parse"
  received,      \* history: bytes appended so far
  framed,        \* history: bytes that left the buffer in a frame
  delivered      \* history: frames handed to the callback

vars == <<buffer, stats, input, emitted, pc, received, framed, delivered>>

Counters == {"frames", "discarded_bytes", "crc_errors",
             "version_errors", "length_errors", "gap_resets"}

PlusUnbounded(n, k) == n + k                      \* mutant: no wrap-around

Plus(n, k) == (n + k) % CounterMod

Count(st, counter) == [st EXCEPT ![counter] = Plus(@, 1)]

------------------------------------------------------------------------------
(***************************************************************************)
(* Removing bytes from the front of the buffer.                            *)
(***************************************************************************)

DiscardUncounted(k, st) ==                        \* mutant: `discarded` is 0
  /\ buffer' = SubSeq(buffer, k + 1, Len(buffer))
  /\ stats' = st

\* remove_prefix(decoder, k, 1), on top of the counters already in st.
DiscardPrefix(k, st) ==
  /\ buffer' = SubSeq(buffer, k + 1, Len(buffer))
  /\ stats' = [st EXCEPT !.discarded_bytes = Plus(@, k)]

MagicPositionsFromHead(b) ==                      \* mutant: index starts at 0
  {p \in 1..(Len(b) - 1) : b[p] = Magic0 /\ b[p + 1] = Magic1}

\* Positions after the first where the magic stands in b.
MagicPositions(b) ==
  {p \in 2..(Len(b) - 1) : b[p] = Magic0 /\ b[p + 1] = Magic1}

ResyncPointDropsTail(b, k) ==                     \* mutant: last 'O' not kept
  \/ /\ k + 1 \in MagicPositions(b)
     /\ \A p \in MagicPositions(b) : k < p
  \/ MagicPositions(b) = {} /\ k = Len(b)

\* resync_after_error drops k bytes of b: up to the first magic after the
\* head, else everything but a last byte that may begin one.
ResyncPoint(b, k) ==
  \/ /\ k + 1 \in MagicPositions(b)
     /\ \A p \in MagicPositions(b) : k < p
  \/ /\ MagicPositions(b) = {}
     /\ k = IF Len(b) > 0 /\ b[Len(b)] = Magic0 THEN Len(b) - 1 ELSE Len(b)

Resync(st) == \E k \in 0..Len(buffer) : /\ ResyncPoint(buffer, k)
                                        /\ DiscardPrefix(k, st)

\* Where control goes once the buffer has shrunk: the parse loop runs again
\* if two bytes are left, else the next byte is read, else the call returns.
AfterInput == IF input = <<>> THEN "idle" ELSE "read"

AfterShrinkOnce == AfterInput                     \* mutant: processing stays 0

AfterShrink == IF Len(buffer') >= 2 THEN "parse" ELSE AfterInput

------------------------------------------------------------------------------
Init ==
  /\ buffer = <<>>
  /\ stats = [c \in Counters |-> 0]
  /\ input = <<>>
  /\ emitted = 0
  /\ pc = "idle"
  /\ received = 0
  /\ framed = 0
  /\ delivered = <<>>

\* oomwoo_stream_decoder_init, when the owner starts over.
Restart ==
  /\ buffer' = <<>>
  /\ stats' = [c \in Counters |-> 0]
  /\ input' = <<>> /\ emitted' = 0 /\ pc' = "idle"
  /\ received' = 0 /\ framed' = 0 /\ delivered' = <<>>

\* A caller enters oomwoo_stream_decoder_feed.
Feed ==
  /\ pc = "idle"
  /\ input' \in Chunks
  /\ received + Len(input') <= MaxReceived
  /\ emitted' = 0
  /\ pc' = "read"
  /\ UNCHANGED <<buffer, stats, received, framed, delivered>>

\* One byte of the input is appended, making room first if the buffer is full.
ReadByte ==
  /\ pc = "read"
  /\ IF Len(buffer) = MaxFrame
     THEN \E k \in 0..Len(buffer) :
            /\ ResyncPoint(buffer, k)
            /\ buffer' = Append(SubSeq(buffer, k + 1, Len(buffer)), Head(input))
            /\ stats' = [stats EXCEPT !.discarded_bytes = Plus(@, k)]
     ELSE /\ buffer' = Append(buffer, Head(input))
          /\ UNCHANGED stats
  /\ input' = Tail(input)
  /\ received' = received + 1
  /\ pc' = "parse"
  /\ UNCHANGED <<emitted, framed, delivered>>

------------------------------------------------------------------------------
(***************************************************************************)
(* The iterations of the parse loop.  Each rejection requires the tests    *)
(* before it in the source to have passed.                                 *)
(***************************************************************************)
HeaderRead == Len(buffer) >= HeaderSize /\ HasMagic(buffer)

LengthRead == HeaderRead /\ buffer[3] = ProtocolVersion

FramePlausibleByOne ==                            \* mutant: off by one
  LengthRead /\ PayloadLength(buffer) <= MaxPayload + 1

FramePlausible == LengthRead /\ PayloadLength(buffer) <= MaxPayload

FrameCompleteLate ==                              \* mutant: one byte more
  Len(buffer) > FrameLength(buffer)

FrameComplete == Len(buffer) >= FrameLength(buffer)

FrameRead == FramePlausible /\ FrameComplete

Candidate == SubSeq(buffer, 1, FrameLength(buffer))

\* A lone byte that cannot begin a magic.
DropStrayByte ==
  /\ Len(buffer) = 1
  /\ buffer[1] # Magic0
  /\ DiscardPrefix(1, stats)
  /\ pc' = AfterInput
  /\ UNCHANGED <<emitted, framed, delivered>>

\* The candidate is incomplete: the loop stops and keeps it.
AwaitMore ==
  /\ \/ Len(buffer) = 1 /\ buffer[1] = Magic0
     \/ Len(buffer) \in 2..(HeaderSize - 1) /\ HasMagic(buffer)
     \/ FramePlausible /\ ~FrameComplete
  /\ pc' = AfterInput
  /\ UNCHANGED <<buffer, stats, emitted, framed, delivered>>

RejectMagic ==
  /\ Len(buffer) >= 2
  /\ ~HasMagic(buffer)
  /\ Resync(stats)
  /\ pc' = AfterShrink
  /\ UNCHANGED <<emitted, framed, delivered>>

RejectVersion ==
  /\ HeaderRead
  /\ buffer[3] # ProtocolVersion
  /\ Resync(Count(stats, "version_errors"))
  /\ pc' = AfterShrink
  /\ UNCHANGED <<emitted, framed, delivered>>

RejectLength ==
  /\ LengthRead
  /\ PayloadLength(buffer) > MaxPayload
  /\ Resync(Count(stats, "length_errors"))
  /\ pc' = AfterShrink
  /\ UNCHANGED <<emitted, framed, delivered>>

\* oomwoo_decode_frame refuses the complete candidate.
RejectFrame ==
  /\ FrameRead
  /\ DecodeResult(Candidate) # "OK"
  /\ Resync(Count(stats, IF DecodeResult(Candidate) = "BAD_CRC"
                         THEN "crc_errors" ELSE "length_errors"))
  /\ pc' = AfterShrink
  /\ UNCHANGED <<emitted, framed, delivered>>

EmitFrameLeavesByte ==                            \* mutant: off by one
  /\ FrameRead
  /\ DecodeResult(Candidate) = "OK"
  /\ delivered' = Append(delivered, Candidate)
  /\ stats' = Count(stats, "frames")
  /\ emitted' = emitted + 1
  /\ framed' = framed + FrameLength(buffer) - 1
  /\ buffer' = SubSeq(buffer, FrameLength(buffer), Len(buffer))
  /\ pc' = AfterShrink

\* The callback runs, then the frame leaves the buffer.
EmitFrame ==
  /\ FrameRead
  /\ DecodeResult(Candidate) = "OK"
  /\ delivered' = Append(delivered, Candidate)
  /\ stats' = Count(stats, "frames")
  /\ emitted' = emitted + 1
  /\ framed' = framed + FrameLength(buffer)
  /\ buffer' = SubSeq(buffer, FrameLength(buffer) + 1, Len(buffer))
  /\ pc' = AfterShrink

Parse ==
  /\ pc = "parse"
  /\ \/ DropStrayByte \/ AwaitMore \/ RejectMagic \/ RejectVersion
     \/ RejectLength \/ RejectFrame \/ EmitFrame
  /\ UNCHANGED <<input, received>>

\* oomwoo_stream_decoder_reset_incomplete, between two feed calls.
GapReset ==
  /\ pc = "idle"
  /\ buffer # <<>>
  /\ buffer' = <<>>
  /\ stats' = [Count(stats, "gap_resets")
                 EXCEPT !.discarded_bytes = Plus(@, Len(buffer))]
  /\ UNCHANGED <<input, emitted, pc, received, framed, delivered>>

Next == Feed \/ ReadByte \/ Parse \/ GapReset

Spec == Init /\ [][Next]_vars

\* A feed call that was entered runs on: nothing in it waits.
FairSpec == Spec /\ WF_vars(ReadByte \/ Parse)

------------------------------------------------------------------------------
(***************************************************************************)
(* Properties.                                                             *)
(***************************************************************************)
TypeOK ==
  /\ buffer \in Seq(Byte) /\ Len(buffer) <= MaxFrame
  /\ stats \in [Counters -> 0..(CounterMod - 1)]
  /\ input \in Seq(Byte)
  /\ emitted \in Nat
  /\ pc \in {"idle", "read", "parse"}
  /\ received \in Nat
  /\ framed \in Nat
  /\ delivered \in Seq(Seq(Byte))

\* Every byte ever fed is in the buffer, in a delivered frame or counted as
\* discarded, also when the counter has wrapped.
ByteAccounting ==
  (stats.discarded_bytes + framed + Len(buffer)) % CounterMod
    = received % CounterMod

\* Between two bytes the decoder holds nothing but an unfinished candidate
\* (or the one byte that followed the last frame): whatever the parse loop
\* could decide from the bytes at hand has been decided.
IdleCandidate ==
  pc # "parse" =>
    \/ Len(buffer) <= 1
    \/ /\ HasMagic(buffer)
       /\ Len(buffer) >= HeaderSize =>
            /\ FramePlausible
            /\ Len(buffer) < FrameLength(buffer)

\* A new byte never finds the buffer full, so the guard of
\* oomwoo_protocol.c:180 never has to throw a candidate away.
RoomForByte == pc = "read" => Len(buffer) < MaxFrame

\* An error counter moves only together with a resynchronisation that drops
\* the rejected candidate's magic, so one bad candidate is counted once and
\* the loop cannot spin on it.
ErrorsDiscard ==
  [][\A c \in {"crc_errors", "version_errors", "length_errors"} :
       stats'[c] # stats[c] => Len(buffer') < Len(buffer)]_vars

\* What a call has left to do at most: a byte not yet read costs its reading,
\* the iteration it starts and the one that drops it.
Work == 3 * Len(input) + Len(buffer) + (IF pc = "parse" THEN 1 ELSE 0)

\* Every step of a feed call brings its end nearer, whatever the bytes are: the
\* loops of oomwoo_stream_decoder_feed take at most three steps for a byte of
\* input and one for a byte held before, even where each resynchronisation
\* finds one more false magic.
FeedAdvances == [][pc # "idle" => Work' < Work]_vars

\* Every feed call returns.
FeedReturns == (pc # "idle") ~> (pc = "idle")
=============================================================================
