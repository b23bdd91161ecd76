SPECIFICATION FairSpec

CONSTANTS
  Client = {c1, c2, c3}
  DefaultLimit = 2
  MinLimit = 1
  RetryMax = 2
  CancelSeenAt = {"queued", "woken", "retrying"}
  MaxRequests = 4

INVARIANTS
  WaiterHasWaker
PROPERTIES
  AcquireReturns
CHECK_DEADLOCK FALSE
