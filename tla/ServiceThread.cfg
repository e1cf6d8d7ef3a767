SPECIFICATION MCSpec
CONSTANTS
  Subjects = {"thread", "startup"}
  Timeout = 2
  MayFail <- MCMayFail
  MayNotStart <- MCMayNotStart
  FoxgloveDebug = TRUE
INVARIANTS
  WorkerStopsFirst
  StoppedIsReleased
  StartupOrdered
PROPERTIES
  DeinitReturns
  MainIsHonest
