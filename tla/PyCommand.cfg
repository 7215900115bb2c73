CONSTANTS
  p1 = p1
  p2 = p2
  a = a
  b = b
  c = c
  bTmp = bTmp
  cTmp = cTmp
  None = None
  Procs = {p1, p2}
  Paths = {a, b, c}
  Temp <- MCTemp
  Commands <- MCCommands
  Existing = {b, c}
  Chunks = 2
  MaxLosses = 1
SYMMETRY MCSymmetry
SPECIFICATION Spec
INVARIANTS
  TypeOK
  WholeUnlessMet
  FailureIsInvisible
  NoLeftover
PROPERTIES
  OkMeansPublished
CHECK_DEADLOCK FALSE
