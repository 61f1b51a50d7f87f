SPECIFICATION FairSpec
CONSTANTS
  HeaderSize = 2
  BufferSize <- MCBufferSize
  ChunkSize <- MCChunkSize
  PayloadLimit = 2
  Kinds <- MCKinds
  GarbageSize = 1
  MaxPackets = 3
  MaxConnections = 2
CHECK_DEADLOCK FALSE
INVARIANTS
  IntactInOrder
  NoGap
  TcpOverflowsOnlyOnRefused
PROPERTIES
  LegitIsTaken
