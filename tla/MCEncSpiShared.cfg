SPECIFICATION Spec
CONSTANTS
  Called <- SomeRegisters
  Own = {2, 3}
  TXRTS = 3
  Others = {"display", "flash"}
INVARIANTS Exclusive
