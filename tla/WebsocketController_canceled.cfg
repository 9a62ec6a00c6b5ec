SPECIFICATION Spec
CONSTANTS
  Requests = {r1, r2, r3}
  SIZE_QUEUE = 1
  NONE = NONE
INVARIANT CanceledIsReleased
CHECK_DEADLOCK FALSE
