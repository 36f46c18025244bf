SPECIFICATION FairSpec
CONSTANTS
  NumRoutes = 1
  Enabled = {1}
  Input <- TrackInput
  EventSensor = "event"
  EventSwitch = {}
  Sensor <- TrackSensor
  SensorEnabled <- TrackEnabled
  SwitchNeeded <- TrackSwitches
  Timeout = 2
  Debounce = 1
  QueueSize = 2
INVARIANT TypeOK
INVARIANT GatesMatchTrains
INVARIANT OccupiedRouteTimesOut
PROPERTY KeepsTheGates
PROPERTY ReleasedByClearIslandOrTimeout
PROPERTY ClearTrackRaisesGates
PROPERTY TrainLowersGates
