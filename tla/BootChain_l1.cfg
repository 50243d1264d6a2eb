CONSTANTS
  Secrets = {s1}
  Unset = Unset
  Lost = Lost
  L1Images = {l1a, l1b, garbled}
  SignedL1 = {l1a}
  Garbled = garbled
  Stray = stray
  None = None
  Residue = residue
  Builds <- MCProduction
  MaxFaults = 2
SPECIFICATION Spec
CHECK_DEADLOCK FALSE
INVARIANT L1Authentic
