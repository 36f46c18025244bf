SPECIFICATION Spec
CONSTANTS
  NumOutputs = 2
  NumCopies = 2
  NumSwitches = 2
  Startups = {"normal", "last"}
  Modes = {"on", "save"}
INVARIANT TypeOK
INVARIANT ReadyToSave
PROPERTY LastPositionSurvives
PROPERTY TrackerSurvives
PROPERTY TrackerNeverStale
CONSTRAINT OneMoves FailureIsLast
