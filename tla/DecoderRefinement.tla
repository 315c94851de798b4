------------------------- MODULE DecoderRefinement --------------------------
(***************************************************************************)
(* The stream decoder implements FrameStream: the buffer is what the       *)
(* abstract receiver still holds, the callbacks are its deliveries and the *)
(* gap_resets counter tells its abandons apart.                            *)
(*                                                                         *)
(* What counts as a frame is defined by the sender alone: the bytes are    *)
(* re-encoded by oomwoo_encode_frame, for every payload length, and        *)
(* compared with what was received.  So the refinement also says that      *)
(* decoder and encoder agree on the frames.                                *)
(***************************************************************************)
EXTENDS StreamDecoder

\* The flags, sequence and type bytes of s, and its first n payload bytes; what
\* s does not reach is filled with a byte of no importance.
FieldsOf(s) ==
  [i \in 1..(HeaderSize - 5) |-> IF i + 3 <= Len(s) THEN s[i + 3] ELSE Magic0]

PayloadOf(s, n) ==
  [i \in 1..n |-> IF HeaderSize + i <= Len(s) THEN s[HeaderSize + i] ELSE Magic0]

Reencoded(s) == {EncodeFrame(FieldsOf(s), PayloadOf(s, n)) : n \in 0..MaxPayload}

Abs == INSTANCE FrameStream WITH
         FrameByte <- Byte, FramesLike <- Reencoded,
         rest <- buffer, out <- delivered, gaps <- stats.gap_resets

\* No frame is lost, reordered, duplicated or invented by the decoder: it
\* delivers a frame only from the head of the stream, throws away only bytes
\* no frame begins at, and gives up only on an incomplete candidate when
\* reset_incomplete is called.
ImplementsStream == Abs!AbsSpec

\* Moreover it does call back once a frame stands at the head.
ImplementsFairStream == Abs!AbsFairSpec
=============================================================================
