\* Requests and other traffic, cut and damaged, pauses, and resets of the
\* processor.
SPECIFICATION FairHarnessSpec
CONSTANTS
  Byte <- MCByte
  ByteBase = 256
  Magic0 = 79
  Magic1 = 87
  ProtocolVersion = 1
  HeaderSize = 10
  CrcSize = 2
  MaxPayload = 512
  Crc <- MCCrc
  CounterMod = 2
  Chunks <- MCChunks
  MaxReceived = 24
  Firmware <- MCFirmware
  InitialSequences = {0}
  Capacities = {20}
  HelloLimit = 0
  TimeMod = 4
  Gap = 1
  MaxLag = 1
  MaxWindow = 0
  FifoSize = 16
  Pieces <- Traffic
  Requests <- MCRequests
  LineBudget = 24
  MaxReboots = 1
INVARIANTS
  HelloPerRequest
  RequestHeld
PROPERTIES
  AnswerNears
  RequestAnswered
\* The line may stay silent for ever.
CHECK_DEADLOCK FALSE
