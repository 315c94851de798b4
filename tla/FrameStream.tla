---------------------------- MODULE FrameStream -----------------------------
(***************************************************************************)
(* What the stream decoder promises to the code that feeds it, whatever    *)
(* the chunking and whatever noise is mixed with the frames: frames come   *)
(* out whole and in order, and a byte is thrown away only when no frame    *)
(* can begin at it, or when the receiver gives up on an incomplete frame   *)
(* after a gap (docs/protocol-bringup.md, "Failure behavior").               *)
(***************************************************************************)
EXTENDS Naturals, Sequences, SequencesExt

CONSTANTS
  FrameByte,     \* the bytes of the link
  FramesLike(_)  \* the frames a sender may have meant by a byte sequence: each
                 \* agrees with it as far as a frame of its length can

VARIABLES
  rest,        \* bytes received and neither delivered nor thrown away
  out,         \* frames delivered, oldest first
  gaps         \* changes whenever the receiver gives up on a gap

abs == <<rest, out, gaps>>

\* The bytes of s after its first k.
After(s, k) == SubSeq(s, k + 1, Len(s))

\* s is a frame and what follows it, or may still grow into one.
Viable(s) == \E f \in FramesLike(s) : IsPrefix(f, s) \/ IsPrefix(s, f)

AbsInit == rest = <<>> /\ out = <<>> /\ gaps = 0

Receive ==
  /\ \E b \in FrameByte : rest' = Append(rest, b)
  /\ UNCHANGED <<out, gaps>>

Deliver ==
  /\ \E f \in FramesLike(rest) : /\ IsPrefix(f, rest)
                                 /\ rest' = After(rest, Len(f))
                                 /\ out' = Append(out, f)
  /\ UNCHANGED gaps

Discard ==
  /\ \E k \in 1..Len(rest) : /\ \A i \in 0..(k - 1) : ~Viable(After(rest, i))
                             /\ rest' = After(rest, k)
  /\ UNCHANGED <<out, gaps>>

\* Only an incomplete candidate may be abandoned: nothing at the head of
\* the stream is a frame.
Abandon ==
  /\ rest # <<>>
  /\ ~ \E f \in FramesLike(rest) : IsPrefix(f, rest)
  /\ rest' = <<>>
  /\ gaps' # gaps
  /\ UNCHANGED out

AbsNext == Receive \/ Deliver \/ Discard \/ Abandon

AbsSpec == AbsInit /\ [][AbsNext]_abs

\* The callback is not put off forever while a frame stands at the head.
AbsFairSpec == AbsSpec /\ WF_abs(Deliver)
=============================================================================
