SPECIFICATION FairSpec
CONSTANTS
  SIZE_QUEUE_BUFFER = 3
  SIZE_POOL_BUFFER = 5
  MaxReads = 8
INVARIANTS
  TypeOK
  PoolNeverBlocks
  StagedHasTimer
  OneOwner
PROPERTIES
  ImplementsStream
  EverythingFlushed
CHECK_DEADLOCK FALSE
