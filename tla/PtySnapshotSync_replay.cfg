SPECIFICATION Spec
CONSTANTS
  SIZE_QUEUE_RESIZER = 3
  MaxChunks = 2
  MaxConnections = 1
  MaxSyncs = 2
PROPERTY ReplayBeforeLive
CHECK_DEADLOCK FALSE
