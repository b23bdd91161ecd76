SPECIFICATION Spec

CONSTANTS
  NumJobs = 2
  Handler = {h1, h2}
  Run = {r1, r2}
  Boot = boot
  None = none
  Leftover <- QueuedAndPaused
  CapSet = {1}
  MaxTries = 1
  StopTimeout = FALSE
  StoreMayFail = FALSE
  Requests = {"pause", "resume", "retry", "cancel", "remove"}
  MaxOps = 1
  MaxCrashes = 1

SYMMETRY Alike
INVARIANTS
  ActiveRowHasRuntime
  PromisedRetryComes
CHECK_DEADLOCK FALSE
