CONSTANTS
  BlockBytes = 2
  Threads = 2
  MaxLength = 6
  Inners <- MCInners
  Numbers = {0, 1, 3, 9, 33}
  Kilo = 4
  MaxWord = 31
  None = None
SPECIFICATION FairSpec
INVARIANTS
  TypeOK
  SameAsSequential
  ReadsBack
PROPERTIES
  Completes
CHECK_DEADLOCK FALSE
