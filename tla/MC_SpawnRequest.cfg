SPECIFICATION RequestSpec
CONSTANTS
  ExitCodes = {0}
  SignalNumbers = {}
  Tracers = {"NONE", "FOREIGN"}
  Letters = {"R"}
  SIZE_QUEUE_BUFFER = 3
  BYTE = 5
  Requests <- MCRequests
INVARIANTS
  DecodedAsSent
  FailedLaunchLeavesNothing
PROPERTIES
  LaunchSettles
  SessionEnds
CHECK_DEADLOCK FALSE
