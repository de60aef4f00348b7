CONSTANTS
  MAX_PROCESSES = 3
  MAX_BURSTS = 4
  INT_MAX = 15
  Files <- OddFile
SPECIFICATION Spec
CHECK_DEADLOCK FALSE
INVARIANT ReadAsDocumented
