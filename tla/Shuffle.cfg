CONSTANTS
  Size = 4
  MaxWord = 7
  Refill = 2
  MaxStream = 6
SPECIFICATION ShuffleSpec
INVARIANTS
  Bijective
  Unbiased
  FreshStream
CHECK_DEADLOCK FALSE
