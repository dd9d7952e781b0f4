SPECIFICATION Spec
CONSTANTS
  RamBlocks = 6
  rxbufsize = 3
  Aliases <- TwoDecoders
  StableRequired = 3
  MaxReads = 7
  PowerUpReads = 2
  MaxPackets = 3
  MaxRestarts = 2
INVARIANTS TypeOK HandsOver ReceivesWhenUp BistFindsFaults CacheCoherent ResetAvoidsFalseAlarms
PROPERTIES SetupEnds
