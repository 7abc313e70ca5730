SPECIFICATION Spec
CONSTANTS
  BufSize = 2
  ChunkBytes = 3
  MaxReply = 2
  MaxWrites = 2
  MaxBytes = 4
PROPERTIES ClosedOnlyOnWriteError
CHECK_DEADLOCK FALSE
