\* Safety on every stream of one-byte calls.
SPECIFICATION Spec
CONSTANTS
  Byte <- MCByte
  ByteBase = 4
  Magic0 = 3
  Magic1 = 2
  ProtocolVersion = 1
  HeaderSize = 5
  CrcSize = 1
  MaxPayload = 6
  Crc <- MCCrc
  CounterMod = 4
  Chunks <- SingleBytes
  MaxReceived = 12
INVARIANTS TypeOK ByteAccounting IdleCandidate
PROPERTIES ErrorsDiscard ImplementsStream
\* The line may stay silent for ever.
CHECK_DEADLOCK FALSE
