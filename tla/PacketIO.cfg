CONSTANTS
  HEAD = 2
  BUF_SIZE = 2
  FRAME_MAX = 5
  FRAMES = 2

SPECIFICATION FairSpec

INVARIANTS
  TypeOK
  InStep
  EndsWithConnection
  FileFollowsFrames

PROPERTIES
  StreamsPackets
  PacketsArrive

CHECK_DEADLOCK FALSE
