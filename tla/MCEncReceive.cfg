SPECIFICATION Spec
CONSTANTS
  ERXND = 28
  Radix = 8
  FrameLens = {4, 7, 10}
  BadLens = {3, 99}
  Huge = 50
  MaxPackets = 2
  MaxFrames = 4
INVARIANTS TypeOK UnreadIntact InSync PbufHoldsFrame RingReclaimed
PROPERTIES EveryFrameTaken ImplementsFifo
