\* The pipeline ends with a result or an exception.
CHECK_DEADLOCK FALSE
SPECIFICATION Spec
CONSTANTS
  MaxIndex = 2
  BackFirst = 2
  MgmtThird = 3
  FirstHost = 1
  TotalHosts = 4
  OrgDirs <- FolderNames
  SvcId = {"s1"}
  Configs <- ViewConfigs
  StrictModes = {TRUE, FALSE}
  MaxEdits = 0
  MaxRuns = 1
INVARIANTS
  TypeOK
  RenderLookupsDefined
  AddressTellsZone
  AddressRulesNeedRepeatedIds
  HoneypotsContained
  ServicesCountedOnce
  EdgesJoinNodes
  ReachabilityIsDual
  SurfaceIsFront
  AssetsAreFound
