SPECIFICATION Spec
CONSTANTS
  NumRoutes = 1
  Enabled = {1}
  Input <- HalfInput
  EventSensor = "event"
  EventSwitch = {}
  Sensor <- HalfSensor
  SensorEnabled <- HalfEnabled
  SwitchNeeded <- TrackSwitches
  Timeout = 2
  Debounce = 1
  QueueSize = 2
PROPERTY UnusedSensorsIgnored
