SPECIFICATION Spec
CONSTANTS
  None = None
  NoFile = NoFile
  Foreign = Foreign
  Networks <- FewNetworks
  Cities <- FewCities
  Histories <- FewHistories
  MaxBuilds = 2
  MaxMoves = 2
INVARIANTS TypeOK RefNamesCompared DiffIsExact CountsAddUp
CHECK_DEADLOCK FALSE
