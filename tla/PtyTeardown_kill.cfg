SPECIFICATION Spec
CONSTANTS
  ExitCodes = {0}
  SignalNumbers = {}
  Tracers = {"NONE", "FOREIGN"}
  Letters = {"R"}
  SIZE_QUEUE_BUFFER = 3
PROPERTIES
  NoGroupKillAfterTermination
CHECK_DEADLOCK FALSE
