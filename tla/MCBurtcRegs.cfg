SPECIFICATION Spec
CONSTANTS
  N = 1
  WordMax = 7
  Word <- XorWord
  NoValue = NoValue
  Idle = Idle
  Checksum <- XorChecksum
  Incr <- XorIncr
INVARIANTS TypeOK OldOrNew Durable
PROPERTIES ImplementsCell
