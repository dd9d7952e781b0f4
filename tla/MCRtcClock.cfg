SPECIFICATION Spec
CONSTANTS
  M = 8
  H = 3
  Latency = 3
  Duration = 4
  MaxWraps = 7
INVARIANTS TypeOK Accounted ReadExact
PROPERTIES FlagCleared
