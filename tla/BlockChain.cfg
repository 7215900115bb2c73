CONSTANTS
  Blocks = {0, 1, 2}
  Nonces = {1, 2}
  Seeds = {0, 1, 2}
  MaxBlocks = 3
  Inputs <- MCInputs
  Seed <- MCSeed
  Enc <- MCEnc
  Dec <- MCDec
SPECIFICATION Spec
INVARIANTS
  RoundTrip
  DamageIsLocal
CHECK_DEADLOCK FALSE
