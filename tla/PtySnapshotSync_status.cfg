SPECIFICATION Spec
CONSTANTS
  SIZE_QUEUE_RESIZER = 3
  MaxChunks = 1
  MaxConnections = 2
  MaxSyncs = 1
PROPERTY StatusBeforeOutput
CHECK_DEADLOCK FALSE
