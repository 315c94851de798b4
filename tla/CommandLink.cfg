\* Three commands in a row on an undamaged line, cut into pieces anywhere.
SPECIFICATION FairLinkSpec
CONSTANTS
  Byte <- MCByte
  ByteBase = 256
  Magic0 = 79
  Magic1 = 87
  ProtocolVersion = 1
  HeaderSize = 10
  CrcSize = 2
  MaxPayload = 512
  Crc <- MCCrc
  CounterMod = 4
  Chunks <- MCChunks
  MaxReceived = 54
  Commands <- MCCommands
  Leads <- MCLeads
  OldBytes <- MCOldBytes
  MaxAsked = 3
INVARIANTS
  NoneWaiting
  UndamagedBooks
PROPERTIES
  ImplementsQueue
  AllHandedOver
\* When everything asked has been handed over, the link rests.
CHECK_DEADLOCK FALSE
