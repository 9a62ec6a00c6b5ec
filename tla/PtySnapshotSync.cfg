SPECIFICATION Spec
CONSTANTS
  SIZE_QUEUE_RESIZER = 1
  MaxChunks = 2
  MaxConnections = 2
  MaxSyncs = 2
INVARIANTS
  TypeOK
  NoGap
  HiddenIsSilent
PROPERTIES
  NothingBeforeManifest
  ExitAfterOutput
CHECK_DEADLOCK FALSE
