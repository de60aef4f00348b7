CONSTANTS
  NUMBER_OF_PROCESSORS = 2
  MAX_PROCESSES = 3
  Inputs <- MixedInputs
  Quanta <- ShortQuanta
SPECIFICATION Spec
CHECK_DEADLOCK FALSE
INVARIANT Queue2Last
