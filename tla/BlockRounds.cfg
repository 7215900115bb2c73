CONSTANTS
  ByteBits = 2
  WordBytes = 2
  NewtonSteps = 2
  Rounds = 2
  Blocks <- MCBlocks
  Keys <- MCKeys
SPECIFICATION Spec
INVARIANTS
  RoundsUndone
CHECK_DEADLOCK FALSE
