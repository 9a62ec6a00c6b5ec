SPECIFICATION Spec
CONSTANTS
  Requests = {r1, r2, r3}
  SIZE_QUEUE = 1
  NONE = NONE
INVARIANT OneSocketOpen
CHECK_DEADLOCK FALSE
