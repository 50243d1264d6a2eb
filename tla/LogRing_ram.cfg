\* The log in SRAM2-3, whose copy has no room for a terminator.
CONSTANTS
  Size = 3
  CopySize = 3
  LineLen = 3
  MaxStr = 4
  Preempted = FALSE
  CutOff = {}
  Garbage = FALSE
SPECIFICATION Spec
INVARIANT TerminatorFits
