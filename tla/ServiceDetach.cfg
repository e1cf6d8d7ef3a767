SPECIFICATION MCSpec
CONSTANTS
  Subjects = {"thread"}
  Timeout = 2
  MayFail = {}
  MayNotStart = {}
  FoxgloveDebug = FALSE
INVARIANT DetachesSystemObject
