-------------------------- MODULE MCStreamDecoder ---------------------------
(***************************************************************************)
(* The decoder over four byte values: 0 and 1 can be lengths and payload,  *)
(* 1 the version, 3 and 2 the magic.  A length is two base-4 digits, up to *)
(* 15; MaxPayload is 6, so a damaged frame can hide a whole frame (6 bytes)    *)
(* in its payload.                                                         *)
(***************************************************************************)
EXTENDS DecoderRefinement

MCByte == 0..3

\* A check over the length and the last byte.  Like a real CRC it does not
\* notice every damage.
MCCrc(s) == <<(s[4] + 2 * s[Len(s)] + 1) % 4>>

\* Every input, byte by byte.
SingleBytes == {<<b>> : b \in MCByte}

\* Longer calls: two frames in one call, a damaged CRC, version or length with
\* a good frame behind it, a good frame hidden in a damaged one, and pieces.
MixedChunks ==
  LET e == EncodeFrame(<<>>, <<>>)
      f == EncodeFrame(<<>>, e)
      Damage(s, i) == [s EXCEPT ![i] = (@ + 1) % 4]
  IN  { <<0>>, <<3>>, <<3, 2, 1>>, f, e \o e,
        Damage(f, Len(f)), Damage(f, 3) \o e, Damage(e, 4), Damage(e, 6) \o e,
        Damage(f, 4) }
=============================================================================
