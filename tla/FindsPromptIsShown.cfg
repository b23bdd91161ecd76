SPECIFICATION DashSpec

CONSTANTS
  MaxJobs = 2
  MaxListMoves = 3
  MaxBulks = 1

INVARIANTS
  PromptIsShown
CHECK_DEADLOCK FALSE
