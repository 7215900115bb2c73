CONSTANTS
  MaxWord = 7
  BlockBytes = 2
  Entries <- MCEntries
SPECIFICATION Spec
INVARIANTS
  Tiles
  SliceInBounds
  NothingLeftOver
  SumAgrees
CHECK_DEADLOCK FALSE
