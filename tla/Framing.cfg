CONSTANTS
  HEAD = 4
  LEN_AT = 1
  BASE = 3
  BUF_SIZE = 7
  PACKETS = 3

SPECIFICATION FairSpec

INVARIANTS
  TypeOK
  InStep
  NotCutOff
  HandledInOrder

PROPERTIES
  StreamsPackets
  AllHandled

CHECK_DEADLOCK FALSE
