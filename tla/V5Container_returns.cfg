CONSTANTS
  pw1 = pw1
  pw2 = pw2
  none = none
  x = x
  y = y
  Passwords = {pw1, pw2, none}
  Empty = none
  Payloads <- MCPayloads
  Random = x
  MaxRandom = 1
  Kdfs <- MCKdfs
  MaxIterations = 1
  Sizes = {3, 4}
  BlockBytes = 2
  Salts = {1}
  Nonces = {1}
  MaxWord = 15
  MaxWritten = 2
  MaxDamages = 1
  Garbage = Garbage
SPECIFICATION Spec
INVARIANTS
  AlwaysReturns
CHECK_DEADLOCK FALSE
