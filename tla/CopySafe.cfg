CONSTANTS
  nIN = 2
  nOUT = 2
  bufSize = 1
  FileSize = 2
  File <- MCFile
  Bytes <- MCBytes
  Offsets <- MCOffsets
  JunkItems <- RecycledJunk
  Cells <- OwnCells
  NULL = NULL
  BufValues <- SomeBufs
  Faults <- AllFaults
SPECIFICATION FairSpec
CHECK_DEADLOCK FALSE
INVARIANTS
  TypeOK
  MutualExclusion
  EmptyTokens
  FullTokens
  EveryByteOnce
  OutputFaithful
  NeverReturns
PROPERTIES
  RingSpec
  ConsumersStarve
