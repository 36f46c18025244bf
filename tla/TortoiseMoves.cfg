SPECIFICATION FairSpec
CONSTANTS
  NumOutputs = 2
  MaxAtOnce = 1
  MoveTicks = 2
  LockTicks = 1
  Controls = {"driven", "disable", "alwaysOn"}
  Addresses <- EachAlone
INVARIANT TypeOK
INVARIANT MovingWithinLimit
INVARIANT CurrentWithinLimit
INVARIANT OffOutOfRange
INVARIANT HeldAtPosition
INVARIANT ArrivedWhenDone
PROPERTY PlacesUsed
PROPERTY MovesEventually
ACTION_CONSTRAINT ResetIsLast
