\* How images start and are launched, over resets of all kinds.
SPECIFICATION Spec
CONSTANTS
  Images <- MCImages
  Prompt = {TRUE, FALSE}
INVARIANTS
  TypeOK
  HandlersReady
  NothingLeftBehind
  ClocksRight
