SPECIFICATION Spec
CONSTANTS
  NumSegments = 3
  ResetOrder <- GateResetOrder
  Value = {"default", "edited"}
  Default = "default"
  Erased = "erased"
  ResetTries = 2
  FlashFails = TRUE
PROPERTY SavedBeforeClean
