CONSTANTS
  DBL_MIN = 1
  DBL_MAX = 100
  INFINITY = 101
  Values <- SomeValues
  Junk = Junk
  NoFile = NoFile
  Inputs <- SomeInputs
SPECIFICATION FairSpec
CHECK_DEADLOCK FALSE
PROPERTIES
  FoldSpec
  Terminates
