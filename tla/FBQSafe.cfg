CONSTANTS
  NUMBER_OF_PROCESSORS = 2
  MAX_PROCESSES = 4
  Inputs <- AllInputs
  Quanta <- SomeQuanta
SPECIFICATION FairSpec
CHECK_DEADLOCK FALSE
INVARIANTS
  OnePlace
  QueueTags
  WorkConserving
  FeedbackLevels
  SwitchesCounted
  TimeAccounting
  ReportSound
PROPERTIES
  LifecycleSpec
  Terminates
