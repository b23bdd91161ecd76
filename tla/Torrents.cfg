SPECIFICATION MCSpec

CONSTANTS
  File = {"f", "g"}
  Choices <- TwoFilesChoices
  Seeder = {s1, s2}
  None = none
  SeedChoices = {TRUE, FALSE}
  Requests = {"pause", "resume", "retry", "cancel", "remove", "select", "list"}
  AddMayFail = TRUE
  MaxOps = 2
  MaxCrashes = 1
  TbJob = {j1, j2}
  TbFile = {"a"}
  FileSlots = 1
  MaxFailures = 2
  Refuses = TRUE
  Flaky = TRUE
  TbMaxOps = 1
  TbMaxCrashes = 1

INVARIANTS
  SeedingHasSeeder
  CompletedHasFiles
  
PROPERTIES
  StoppedStays
  RequestsReturn
  
CHECK_DEADLOCK FALSE
