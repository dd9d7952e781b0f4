SPECIFICATION Spec
CONSTANTS
  Configs = {8, 11}
  AtStart <- AfterReset
  Dummies <- TwoBytes
  PhyTime = 2
INVARIANTS TypeOK DataInWindow WritesArrive
PROPERTIES LossAccounted
