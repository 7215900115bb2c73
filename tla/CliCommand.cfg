CONSTANTS
  p1 = p1
  p2 = p2
  a = a
  b = b
  None = None
  Procs = {p1, p2}
  Paths = {a, b}
  Suffixes = {1, 2}
  Chunks = 2
  MaxLosses = 1
  Commands <- MCCommands
  Initial <- MCInitial
SPECIFICATION FairSpec
INVARIANTS
  TypeOK
  CrashSafe
  ConfirmedSurvives
  RaceOnly
  FailureIsInvisible
  TempRemoved
  InPlaceKeepsPlaintext
PROPERTIES
  CommandEnds
  PublishedImmutable
  ImplementsAtomicFile
CHECK_DEADLOCK FALSE
