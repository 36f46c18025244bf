SPECIFICATION Spec
CONSTANTS
  NumRoutes = 2
  Enabled = {1, 2}
  Input <- JunctionInput
  EventSensor = "event"
  EventSwitch = {"turnout"}
  Sensor <- JunctionSensor
  SensorEnabled <- JunctionEnabled
  SwitchNeeded <- JunctionSwitches
  Timeout = 1
  Debounce = 0
  QueueSize = 1
PROPERTY KeepsTheGates
PROPERTY RaiseOnlyWhenClear
