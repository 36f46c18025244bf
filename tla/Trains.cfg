SPECIFICATION TrainSpec
CONSTANTS
  NumRoutes = 1
  Enabled = {1}
  Input <- TrackInput
  EventSensor = "event"
  EventSwitch = {}
  Sensor <- TrackSensor
  SensorEnabled <- TrackEnabled
  SwitchNeeded <- TrackSwitches
  Timeout = 7
  Debounce = 1
  QueueSize = 2
  Lengths = {1, 3, 5, 7, 9}
  MinStay = 1
  MaxStay = 2
  Headway = 7
INVARIANT IslandProtected
INVARIANT GatesRiseBehindTrain
INVARIANT RouteFreeAfterTrain
INVARIANT TrainInv
