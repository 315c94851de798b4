\* Progress, over calls that bring several bytes, frames and damaged frames.
SPECIFICATION FairSpec
CONSTANTS
  Byte <- MCByte
  ByteBase = 4
  Magic0 = 3
  Magic1 = 2
  ProtocolVersion = 1
  HeaderSize = 5
  CrcSize = 1
  MaxPayload = 6
  Crc <- MCCrc
  CounterMod = 4
  Chunks <- MixedChunks
  MaxReceived = 20
INVARIANT RoomForByte
PROPERTIES FeedAdvances FeedReturns ImplementsFairStream
\* The line may stay silent for ever.
CHECK_DEADLOCK FALSE
