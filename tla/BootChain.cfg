\* Every build and board, two faults or external resets at any points of the boot.
CONSTANTS
  Secrets = {s1, s2}
  Unset = Unset
  Lost = Lost
  L1Images = {l1a, l1b, garbled}
  SignedL1 = {l1a}
  Garbled = garbled
  Stray = stray
  None = None
  Residue = residue
  Builds <- MCBuilds
  MaxFaults = 2
SPECIFICATION FairSpec
CHECK_DEADLOCK FALSE
INVARIANT TypeOK
INVARIANT L1SeesItsOwnIdentity
INVARIANT SameImageSameIdentity
INVARIANT WatchdogResetNoticed
PROPERTY SecretGeneratedUnderProtection
PROPERTY HangEnds
PROPERTY PinResetBoots
PROPERTY CorruptL0EndsInRecovery
