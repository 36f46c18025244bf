SPECIFICATION Spec
CONSTANTS
  NumOutputs = 3
  MaxAtOnce = 2
  MoveTicks = 2
  LockTicks = 1
  Controls = {"driven"}
  Addresses <- EachAlone
INVARIANT NeverOverdrawn
