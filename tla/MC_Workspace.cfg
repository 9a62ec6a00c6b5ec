SPECIFICATION FairSpec
CONSTANTS
  MaxPtys = 2
  SIZE_QUEUE = 2
  SIZE_QUEUE_REDUCER = 1
  SIZE_QUEUE_RESIZER = 2
  SIZE_QUEUE_INPUT = 1
  Budgets <- MCBudgets
INVARIANTS
  TypeOK
  NoInvalidPath
  NoOrphan
  WorkersFollowPty
  ClientKnowsPool
PROPERTIES
  InOrder
  RoomAgain
  ImplementsLifecycle
CHECK_DEADLOCK FALSE
