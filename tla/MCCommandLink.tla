--------------------------- MODULE MCCommandLink ----------------------------
(***************************************************************************)
(* The link with the firmware's geometry: a drive command, an identify     *)
(* request without payload, and an acknowledgement, which may travel both  *)
(* ways and carries the magic in its payload.  A cheap check over sequence,*)
(* type and length stands in for the CRC.                                  *)
(***************************************************************************)
EXTENDS CommandLink

MCByte == 0..255

MCCrc(s) == <<(s[5] + 3 * s[7] + 7 * s[9] + 11 * Len(s)) % 256, 0>>

MCCommands ==
  { Message("IDENTIFY_REQUEST", <<>>), Message("DRIVE_SETPOINT", <<-120, 20, 250>>),
    Message("ACK", <<22351, 0>>) }

MCLeads == {<<0, 1, 0>>}

MCOldBytes == {[i \in 1..6 |-> 79]}

\* What three frames in a row can be cut into, for some lengths of the pieces:
\* one byte, all but the last of the shortest frame, and more than a frame.
Streams ==
  LET f == {CommandFrame(m, lead, before) :
              m \in MCCommands, lead \in MCLeads, before \in MCOldBytes}
  IN  {a \o b \o c : a \in f, b \in f, c \in f}

Pieces ==
  UNION {{SubSeq(s, i, i + n - 1) : i \in 1..(Len(s) - n + 1)} :
           s \in Streams, n \in {1, 11, 17}}

MCChunks == Pieces
=============================================================================
