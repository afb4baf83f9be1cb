\* The session ends after MaxCommands commands.
CHECK_DEADLOCK FALSE
SPECIFICATION CliSpec
CONSTANTS
  MaxIndex = 2
  BackFirst = 2
  MgmtThird = 3
  FirstHost = 1
  TotalHosts = 4
  OrgDirs <- FolderNames
  SvcId = {"s1"}
  Configs <- Files
  StrictModes = {TRUE, FALSE}
  MaxEdits = 1
  MaxRuns = 1
  MaxCommands = 2
INVARIANTS
  CliTypeOK
  ZeroMeansAllIsWell
  RefusalIsExplained
  CheckForetellsBuild
