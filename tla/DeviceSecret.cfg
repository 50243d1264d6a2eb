\* The firmware as built, with the D-cache on, and a flash that reports the words
\* it gets wrong; and one that doesn't, read without a D-cache in between.
CONSTANTS
  Values = {s1, s2, torn1, torn2, ff}
  Blank = ff
  Unwritten = Unwritten
  Unset = Unset
  Lost = Lost
  InsideDICE = TRUE
  Hardware <- MCHardware
SPECIFICATION Spec
INVARIANT TypeOK
INVARIANT IdentityStable
INVARIANT SuccessMeansStored
PROPERTY ProgramOnlyBlank
PROPERTY UnusableForGood
PROPERTY ImplementsRegister
