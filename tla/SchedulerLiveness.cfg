SPECIFICATION FairSpec

CONSTANTS
  NumJobs = 3
  Handler = {h1}
  Run = {r1, r2, r3}
  Boot = boot
  None = none
  Leftover <- TwoActiveToCome
  CapSet = {1, 2}
  MaxTries = 0
  StopTimeout = FALSE
  StoreMayFail = FALSE
  Requests = {"pause", "cancel", "remove", "settings", "add"}
  MaxOps = 1
  MaxCrashes = 0

INVARIANTS
  OneWorkerPerJob
PROPERTIES
  RequestsReturn
  QueuedJobLeaves
  InterruptedJobSettles
CHECK_DEADLOCK FALSE
