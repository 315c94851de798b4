\* The gap timeout against scraps of frames, a small FIFO and a wrapping clock.
SPECIFICATION HarnessSpec
CONSTANTS
  Byte <- MCByte
  ByteBase = 256
  Magic0 = 79
  Magic1 = 87
  ProtocolVersion = 1
  HeaderSize = 10
  CrcSize = 2
  MaxPayload = 512
  Crc <- MCCrc
  CounterMod = 2
  Chunks <- MCChunks
  MaxReceived = 6
  Firmware <- MCFirmware
  InitialSequences = {0}
  Capacities = {20}
  HelloLimit = 0
  TimeMod = 8
  Gap = 1
  MaxLag = 2
  MaxWindow = 1
  FifoSize = 2
  Pieces <- Scraps
  Requests = {}
  LineBudget = 4
  MaxReboots = 1
INVARIANTS
  ReceiverSettles
PROPERTIES
  ResetOnlyAfterSilence
\* The line may stay silent for ever.
CHECK_DEADLOCK FALSE
