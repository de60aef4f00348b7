CONSTANTS
  NUMBER_OF_PROCESSORS = 2
  MAX_PROCESSES = 4
  Inputs <- SomeInputs
  Queues = {"readyQ", "ioWaitQ", "terminatedQ"}
  Nodes = {1, 2, 3, 4, 5, 6, 7, 8, 9, 10, 11, 12, 13, 14, 15, 16, 17, 18, 19, 20, 21, 22}
SPECIFICATION FairSpec
CHECK_DEADLOCK FALSE
INVARIANTS
  ListsSound
  ReportSound
PROPERTIES
  FifoSpec
  LifecycleSpec
  Terminates
