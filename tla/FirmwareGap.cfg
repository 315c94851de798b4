\* A gap reset behind a corrupted length field throws a valid frame away.
SPECIFICATION ReceptionSpec
CONSTANTS
  Byte <- MCByte
  ByteBase = 256
  Magic0 = 79
  Magic1 = 87
  ProtocolVersion = 1
  HeaderSize = 10
  CrcSize = 2
  MaxPayload = 512
  Crc <- MCCrc
  CounterMod = 65536
  Chunks <- LengthDamage
  MaxReceived = 24
PROPERTIES ValidFrameSurvivesReset
CHECK_DEADLOCK FALSE
