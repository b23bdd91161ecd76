SPECIFICATION MCSpec

CONSTANTS
  Callers = {c1, c2}
  Overlapping = {}
  Blocks = 2
  MaxRelease = 2
  MaxKills = 1
  MaxFails = 1
  ChanCap = 2
  MaxLines = 2
  MaxOthers = 1
  MaxSocOps = 1
  MaxChanges = 2
  MaxBoots = 2
  MaxReadFails = 1
  Tabs = {t1, t2}
  MaxEdits = 2
  MaxProduceFails = 1
  MaxTabOps = 4
  Daemon = {d1, d2}
  LinkClient = {l1, l2}
  NoSock = nosock
  ClientVersion = 2
  OldVersions = {0, 1, 3}
  PingTimesOut = FALSE
  MaxDaemonDeaths = 1
  MaxCmds = 2
  ConnName = {n1, n2}
  ConnWriter = {w1, w2}
  ConnOverlap = FALSE
  MaxConnOps = 4
  MaxConnKills = 2

INVARIANTS
  
  
  EnsuredIsCurrent
  SavedIsThere
PROPERTIES
  
  StreamEnds
  BoardCatchesUp
  TabsCatchUp
CHECK_DEADLOCK FALSE
