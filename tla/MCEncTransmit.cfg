SPECIFICATION Spec
CONSTANTS
  RamSize = 19
  rxbufsize = 6
  Chains <- ShortChains
  Polls = 2
  MaxFrames = 3
INVARIANTS TypeOK InFlightIntact QuietWhenIdle RingUntouched
PROPERTIES Returns ImplementsLine
