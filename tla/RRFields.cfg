CONSTANTS
  NUMBER_OF_PROCESSORS = 2
  MAX_PROCESSES = 3
  Inputs <- IOZeroInputs
  Quanta = {2}
SPECIFICATION Spec
CHECK_DEADLOCK FALSE
INVARIANT FieldsAsDocumented
