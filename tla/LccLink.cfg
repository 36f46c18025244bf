SPECIFICATION FairSpec
CONSTANTS
  RingSize = 4
  QueueSize = 1
  Chunk = 3
  MaxTraffic = 3
INVARIANT TypeOK
INVARIANT ParserAwake
INVARIANT TransmitterAwake
INVARIANT NothingMissing
INVARIANT StreamIntact
PROPERTY ChannelImplemented
PROPERTY FramesArrive
PROPERTY ComputerServed
CHECK_DEADLOCK FALSE
