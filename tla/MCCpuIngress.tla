---------------------------- MODULE MCCpuIngress ----------------------------
(***************************************************************************)
(* The ingress gate with the firmware's geometry and CRC, fed frames of    *)
(* every kind it tells apart, whole, cut short and damaged.                *)
(***************************************************************************)
EXTENDS CpuIngress, Crc16

MCByte == 0..255

MCCrc(s) == WriteU16(Crc16Ccitt(s))

FrameOf(code, payload) == EncodeFrame(<<0, 1, 0>> \o WriteU16(code), payload)

Identify == FrameOf(TypeCode.IDENTIFY_REQUEST, <<>>)
Drive == FrameOf(TypeCode.DRIVE_SETPOINT, <<136, 255, 20, 0, 250, 0>>)
Ack == FrameOf(TypeCode.ACK, <<1, 0, 0, 0>>)

\* Frames the decoder emits and the gate refuses, one for each reason.
ForeverDrive == FrameOf(TypeCode.DRIVE_SETPOINT, <<136, 255, 20, 0, 251, 0>>)
ShortHeartbeat == FrameOf(TypeCode.HEARTBEAT, <<0, 0, 0, 0>>)
Hello == FrameOf(TypeCode.MCU_HELLO, <<0, 0, 1, 0, 0, 0, 0, 0>>)
Power == FrameOf(TypeCode.POWER_TELEMETRY, <<>>)
Unassigned == FrameOf(96, <<>>)

Commands == {Identify, Drive, Ack}

FrameChunks ==
  Commands \cup {ForeverDrive, ShortHeartbeat, Hello, Power, Unassigned}
    \cup {[Identify EXCEPT ![12] = 0], [Identify EXCEPT ![3] = 2],
          SubSeq(Drive, 1, 13), ForeverDrive \o Identify}

\* The consumer is called for exactly the commands among the frames that came
\* through, in their order, once each.
CommandsInOrder ==
  [i \in DOMAIN dispatched |-> dispatched[i].frame]
    = SelectSeq(delivered, LAMBDA frame : frame \in Commands)
=============================================================================
