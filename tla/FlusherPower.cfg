SPECIFICATION FairPowerSpec
CONSTANTS
  NumSegments = 3
  ResetOrder <- GateResetOrder
  Value = {"default", "edited"}
  Default = "default"
  Erased = "erased"
  ResetTries = 2
  FlashFails = FALSE
INVARIANT TypeOK
INVARIANT DirtyTracksFlash
INVARIANT DirtyHasTimer
PROPERTY KeepsSettings
PROPERTY RebootLosesNothing
PROPERTY EditsReachFlash
