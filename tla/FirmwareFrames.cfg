\* The firmware's frame geometry and CRC against one damaged byte per frame.
SPECIFICATION ReceptionSpec
CONSTANTS
  Byte <- MCByte
  ByteBase = 256
  Magic0 = 79
  Magic1 = 87
  ProtocolVersion = 1
  HeaderSize = 10
  CrcSize = 2
  MaxPayload = 512
  Crc <- MCCrc
  CounterMod = 65536
  Chunks <- OneDamage
  MaxReceived = 24
INVARIANTS
  OnlySentFrames
  NoFrameMissed
  DeliveredAsReceived
  CommandGetsThrough
CHECK_DEADLOCK FALSE
