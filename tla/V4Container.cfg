CONSTANTS
  pw1 = pw1
  pw2 = pw2
  none = none
  Passwords = {pw1, pw2, none}
  Empty = none
  BlockBytes = 2
  Payloads <- MCPayloads
  Bytes = {0, 1, 2}
  Iterations = {0, 1, 2}
  MaxIterations = 1
  Foreign <- MCForeign
  MaxHeader = 4
  MaxWritten = 2
  MaxForeign = 1
  MaxDamages = 1
SYMMETRY MCSymmetry
SPECIFICATION Spec
INVARIANTS
  TypeOK
  OnlyAuthentic
  IntactVerdict
  
  NativeAgrees
  PadUnpad
CHECK_DEADLOCK FALSE
