SPECIFICATION FairSpec
CONSTANTS
  BufSize = 2
  ChunkBytes = 3
  MaxReply = 2
  MaxWrites = 2
  MaxBytes = 7
INVARIANTS TypeOK BuffersSound WriterScheduled
PROPERTIES CloseLosesNothing EverythingDelivered ErrorClosesClient ImplementsStream
CHECK_DEADLOCK FALSE
