CONSTANTS
  MAX_PROCESSES = 2
  MAX_BURSTS = 4
  INT_MAX = 15
  Files <- SomeFiles
SPECIFICATION Spec
CHECK_DEADLOCK FALSE
INVARIANTS
  StoredFaithful
  RefusedRightly
