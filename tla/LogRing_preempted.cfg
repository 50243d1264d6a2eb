\* Handlers log in the middle of a message, and in the middle of each other's.
CONSTANTS
  Size = 3
  CopySize = 4
  LineLen = 3
  MaxStr = 4
  Preempted = TRUE
  CutOff = {}
  Garbage = FALSE
SPECIFICATION Spec
INVARIANT ReadsInOrder
