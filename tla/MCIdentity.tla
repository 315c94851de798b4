----------------------------- MODULE MCIdentity -----------------------------
(***************************************************************************)
(* The identity service with the firmware's geometry and CRC, started just *)
(* below the wrap of its sequence and offered buffers around the size of a *)
(* hello.                                                                  *)
(***************************************************************************)
EXTENDS Identity, Crc16

MCByte == 0..255

MCCrc(s) == WriteU16(Crc16Ccitt(s))

\* Both ends of each field, and values whose bytes all differ.
MCFirmware ==
  {[major |-> 0, minor |-> 1, build_id |-> <<0, 0>>],
   [major |-> 258, minor |-> 772, build_id |-> <<1286, 1800>>],
   [major |-> 65535, minor |-> 0, build_id |-> <<65535, 65535>>]}

MCInitialSequences == {0, 11, 254, 255, 256, 32767, 65532, 65534, 65535}

MCCapacities == {0, 12, 19, 20, 64}
=============================================================================
