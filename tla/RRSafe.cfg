CONSTANTS
  NUMBER_OF_PROCESSORS = 2
  MAX_PROCESSES = 5
  Inputs <- AllInputs
  Quanta = {1, 2}
SPECIFICATION FairSpec
CHECK_DEADLOCK FALSE
INVARIANTS
  OnePlace
  StepAssertion
  WorkConserving
  AllServedAtExit
  TimeAccounting
  FirstBurstSlices
  ReportSound
  BoundedWait
PROPERTIES
  LifecycleSpec
  Terminates
