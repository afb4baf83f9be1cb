\* The call ends when it returns or raises, so the last state has no successor.
CHECK_DEADLOCK FALSE
SPECIFICATION Spec
CONSTANTS
  MaxIndex = 2
  BackFirst = 2
  MgmtThird = 4
  FirstHost = 1
  TotalHosts = 4
  OrgId = {"a", "b", "c"}
  NetId = {"n1", "n2", "n3", "n4"}
  SvcId = {"s1", "s2", "s3", "s4"}
  Cities <- MCCities
INVARIANTS
  TypeOK
  UniqueAddresses
  AddressInOwnNetwork
PROPERTY
  ImplementsAllocationSpec
