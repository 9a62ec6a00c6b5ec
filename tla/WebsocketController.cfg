SPECIFICATION FairSpec
CONSTANTS
  Requests = {r1, r2, r3}
  SIZE_QUEUE = 1
  NONE = NONE
INVARIANTS
  TypeOK
  PointerMatchesStatus
  PendingIsEvicted
PROPERTIES
  LetGoOnlyBeforeCapture
  ImplementsFlow
  EvictionCompletes
CHECK_DEADLOCK FALSE
