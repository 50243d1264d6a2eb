\* Any header at power-on, handlers and resets at every store.
CONSTANTS
  Size = 2
  CopySize = 3
  LineLen = 2
  MaxStr = 3
  Preempted = TRUE
  CutOff = {"Idle", "Put", "IncPtr", "Wrap", "IncSize"}
  Garbage = TRUE
SPECIFICATION Spec
INVARIANT TypeOK
INVARIANT WritesInBounds
INVARIANT ReadsInOrderInCalm
INVARIANT RightAgain
INVARIANT TerminatorFits
