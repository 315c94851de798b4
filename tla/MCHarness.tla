----------------------------- MODULE MCHarness ------------------------------
(***************************************************************************)
(* The harness with the firmware's frames: requests whole, cut short and   *)
(* with a damaged length, and a command the service ignores.  A cheap      *)
(* check over sequence, type and length stands in for the CRC.             *)
(***************************************************************************)
EXTENDS Harness

MCCrc(s) == <<(s[5] + 3 * s[7] + 7 * s[9] + 11 * Len(s)) % 256, 0>>

FrameOf(code, payload) == EncodeFrame(<<0, 1, 0>> \o WriteU16(code), payload)

Identify == FrameOf(TypeCode.IDENTIFY_REQUEST, <<>>)
Lidar == FrameOf(TypeCode.LIDAR_MOTOR_SET, <<40>>)

\* Claims n bytes of payload that it does not have.
Stretched(n) == [Identify EXCEPT ![9] = n]

MCRequests == {Identify}

\* A stretched request takes what follows it for its payload.  One is refused
\* when that is complete, and must give back a request hidden there; the other
\* waits for more than ever follows, and so does the frame that a request cut
\* short makes of the bytes of the next one.
Traffic == {Identify, Stretched(5), Stretched(20), Lidar, SubSeq(Identify, 1, 7)}

\* Beginnings of a frame, noise, and both.
Scraps == {<<79>>, <<79, 87>>, <<87, 1>>, <<0>>}

MCByte ==
  UNION {{p[i] : i \in DOMAIN p} : p \in Traffic \cup Scraps}

MCChunks == {<<b>> : b \in MCByte}

MCFirmware == {[major |-> 0, minor |-> 1, build_id |-> <<0, 0>>]}
=============================================================================
