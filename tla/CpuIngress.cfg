\* The firmware's geometry; counters of 0..2, so that they wrap.
SPECIFICATION IngressSpec
CONSTANTS
  Byte <- MCByte
  ByteBase = 256
  Magic0 = 79
  Magic1 = 87
  ProtocolVersion = 1
  HeaderSize = 10
  CrcSize = 2
  MaxPayload = 512
  Crc <- MCCrc
  CounterMod = 3
  Chunks <- FrameChunks
  MaxReceived = 56
INVARIANTS
  IngressBalance
  DispatchedIsGenuine
  UnreachableRejections
  CommandsInOrder
  EveryCommandOnce
CHECK_DEADLOCK FALSE
