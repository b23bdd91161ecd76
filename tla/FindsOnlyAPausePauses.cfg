SPECIFICATION Spec

CONSTANTS
  Worker = {w1, w2}
  Folder = {"top", "left", "right"}
  Subfolders <- Tree
  FilesIn <- Holds
  Root = "top"
  Fragile = {"right"}
  None = none
  Size <- Blocks
  Concurrency = 2
  StatMayFail = TRUE
  Breaks = {"b"}
  IgnoresRange = TRUE
  Losable = {"c"}
  MaxOps = 2
  MaxKills = 1

PROPERTY
  OnlyAPausePauses
CHECK_DEADLOCK FALSE
