SPECIFICATION TrainSpec
CONSTANTS
  NumRoutes = 1
  Enabled = {1}
  Input <- TrackInput
  EventSensor = "event"
  EventSwitch = {}
  Sensor <- TrackSensor
  SensorEnabled <- TrackEnabled
  SwitchNeeded <- TrackSwitches
  Timeout = 3
  Debounce = 1
  QueueSize = 2
  Lengths = {3}
  MinStay = 1
  MaxStay = 4
  Headway = 2
PROPERTY LongTrainKeepsGatesDown
