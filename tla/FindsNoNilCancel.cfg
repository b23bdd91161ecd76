SPECIFICATION Spec

CONSTANTS
  NumJobs = 1
  Handler = {h1, h2}
  Run = {r1, r2}
  Boot = boot
  None = none
  Leftover <- OnePaused
  CapSet = {1}
  MaxTries = 0
  StopTimeout = FALSE
  StoreMayFail = FALSE
  Requests = {"resume", "pause"}
  MaxOps = 2
  MaxCrashes = 0

INVARIANTS
  NoNilCancel
CHECK_DEADLOCK FALSE
