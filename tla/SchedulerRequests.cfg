SPECIFICATION Spec

CONSTANTS
  NumJobs = 2
  Handler = {h1, h2}
  Run = {r1, r2}
  Boot = boot
  None = none
  Leftover <- QueuedAndPaused
  CapSet = {1}
  MaxTries = 0
  StopTimeout = TRUE
  StoreMayFail = TRUE
  Requests = {"pause", "resume", "retry", "cancel", "remove"}
  MaxOps = 2
  MaxCrashes = 0

SYMMETRY Alike
PROPERTIES
  ImplementsPool
CHECK_DEADLOCK FALSE
