SPECIFICATION ErasedSpec
CONSTANTS
  N = 2
  WordMax = 3
  Word <- XorWord
  NoValue = NoValue
  Idle = Idle
  Checksum <- XorChecksum
  Incr <- XorIncr
INVARIANTS NeverTorn
