SPECIFICATION FairSpec

CONSTANTS
  Total = 3
  Concurrency = 2
  Servers <- SteadyAndFickle
  Statuses = {"partial", "whole", "other"}
  None = none
  MaxOps = 2
  MaxKills = 1

INVARIANTS
  CompletedIsWhole
PROPERTIES
  ImplementsResumableFile
  AttemptEnds
CHECK_DEADLOCK FALSE
