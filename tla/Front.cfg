SPECIFICATION MCSpec

CONSTANTS
  Editor = {"tab", "page"}
  Port = {1, 2}
  Overlap = FALSE
  MaxChangesMade = 2
  MaxSetTroubles = 1
  TorrentOrder <- TorrentFiles
  Chosen = {2, 3}
  Req = {q1, q2}
  MaxStreams = 1
  MaxSessions = 1
  TTL = 1
  MaxOpens = 2
  MaxTicks = 1
  MaxJobSteps = 1
  StreamLen = 5
  Chunk = 2
  Sites = {"ranges", "short", "untold", "whole"}
  MaxBreaks = 1
  Link = {"u1", "u2", "u3"}
  URLName <- NamesOfURLs
  ServerName <- NamesOfServers
  HasExt = {"u1"}
  MaxLinks = 3
  MaxBatches = 1
  MaxLostAnswers = 1
  Conn = {"c1", "c2"}
  Kids <- Tree
  Above <- TreeAbove
  Folders <- TreeFolders
  MaxSessionsOpened = 2
  MaxListings = 2
  MaxListFails = 1
  Files = 2
  MaxShown = 2
  MaxApplied = 1
  MaxJobMoves = 1
  MaxMail = 2
  Torrent = {"t1", "t2"}
  FilesOf <- FilesIn
  OtherLink = {"u1"}
  MaxWizards = 2
  MaxListsAsked = 2
  MaxJobs = 2
  MaxListMoves = 2
  MaxBulks = 1

SYMMETRY Viewers

INVARIANTS
  
  ServedPairMatches
  
  RelayedExactly
  BatchKeepsApart
  ListingIsOfPath
  
  ChoiceIsOfLink
PROPERTIES
  CursorStays
CHECK_DEADLOCK FALSE
