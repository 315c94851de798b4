\* Calls that succeed, fail and are ignored, around the wrap of the sequence.
SPECIFICATION IdentitySpec
CONSTANTS
  Byte <- MCByte
  ByteBase = 256
  Magic0 = 79
  Magic1 = 87
  ProtocolVersion = 1
  HeaderSize = 10
  CrcSize = 2
  MaxPayload = 512
  Crc <- MCCrc
  Firmware <- MCFirmware
  InitialSequences <- MCInitialSequences
  Capacities <- MCCapacities
  HelloLimit = 4
INVARIANTS
  HellosInSequence
  HellosReadable
  FrameSizeSuffices
\* The limit on hellos ends every behaviour.
CHECK_DEADLOCK FALSE
