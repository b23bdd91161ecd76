SPECIFICATION FairSpec

CONSTANTS
  Worker = {w1, w2}
  Folder = {"top", "left", "right"}
  Subfolders <- Tree
  FilesIn <- Holds
  Root = "top"
  Fragile = {"right"}
  None = none
  Size <- Blocks
  Concurrency = 2
  StatMayFail = TRUE
  Breaks = {"b"}
  IgnoresRange = TRUE
  Losable = {"c"}
  MaxOps = 2
  MaxKills = 1

INVARIANTS
  CompletesRecorded
  WalkIsSound
PROPERTIES
  CompletesWithEveryFile
  RecordedStays
  AttemptEnds
CHECK_DEADLOCK FALSE
