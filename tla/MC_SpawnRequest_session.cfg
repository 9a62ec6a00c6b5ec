SPECIFICATION RequestSpec
CONSTANTS
  ExitCodes = {0, 2}
  SignalNumbers = {9}
  Tracers = {"NONE", "OWN", "FOREIGN"}
  Letters = {"D", "T", "R", "OTHER", "UNREADABLE"}
  SIZE_QUEUE_BUFFER = 3
  BYTE = 5
  Requests <- MCSessionRequests
INVARIANTS
  TypeOK
  NoPanic
  NoTerminateLost
  NoWaitWithoutDeadline
  MasterOutlivesSpawn
  ExitAfterFlush
  OutcomeTruthful
  EscalatesOnce
  FramesReadable
PROPERTIES
  SignalsReachOwnProcess
  ImplementsSession
CHECK_DEADLOCK FALSE
