\* Any size.
CONSTANTS
  Sizes = {0, 1, 2, 3, 4, 5, 6, 7, 8}
  Width = 64
SPECIFICATION Spec
CHECK_DEADLOCK FALSE
INVARIANT FillsTheBuffer
