CONSTANTS
  Bits = {b1}
  BankSectors = 1
  SectorWords = 2
  MaxWords = 3
  MaxLines = 1
  Hardware <- MCHardware
SPECIFICATION Spec
INVARIANTS
  TypeOK
  SuccessMeansDone
  FailureLeavesAPrefix
  OnlyTheTargetChanges
  LockedUnlessRefused
