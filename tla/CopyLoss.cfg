CONSTANTS
  nIN = 2
  nOUT = 2
  bufSize = 2
  FileSize = 2
  File <- MCFile
  Bytes <- MCBytes
  Offsets <- MCOffsets
  JunkItems <- ZeroJunk
  Cells <- OwnCells
  NULL = NULL
  BufValues <- OwnBufs
  Faults <- NoFaults
SPECIFICATION Spec
CHECK_DEADLOCK FALSE
INVARIANT CopyComplete
