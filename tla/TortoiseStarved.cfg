SPECIFICATION FairSpec
CONSTANTS
  NumOutputs = 2
  MaxAtOnce = 1
  MoveTicks = 1
  LockTicks = 1
  Controls = {"driven", "disable"}
  Addresses <- EachAlone
PROPERTY EveryoneMoves
