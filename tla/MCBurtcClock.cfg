SPECIFICATION Spec
CONSTANTS
  M = 4
  W = 4
  NoValue = NoValue
  Idle = Idle
  Latency = 1
  Duration = 2
  MaxWraps = 3
INVARIANTS TypeOK Accounted ReadExact
PROPERTIES OverflowServed
