\* A slot with two cells for the manifest, and ten for two images.
CONSTANTS
  Slot = 12
  ManifestSize = 2
  MaxFw = 4
  Mem = 19
  Width = 32
  Keys = {m, k0, k1}
  ManifestKey = m
  L0Key = k0
  L1Key = k1
  Codes = {"a"}
  MaxFile = 5
  Offsets = {0, 3, 4, 5, 6, 7, 8, 9, 10, 11}
  Strays <- MCStrays
  MaxDamage = 1
  MaxVersion = 2
  MaxFaults = 1
  Changing = {"L0"}
SPECIFICATION BuildSpec
CHECK_DEADLOCK FALSE
INVARIANT TypeOK
INVARIANT AcceptedIsAuthentic
INVARIANT BuiltIsAccepted
INVARIANT SuccessIsCurrent
INVARIANT AcceptedIsCurrent
