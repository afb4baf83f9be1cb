SPECIFICATION Spec
CONSTANTS
  Proc = {"p", "q"}
  OrgId = {"a"}
  Texts = {"example", "empty"}
  Size <- Sizes
  MaxStarts = 2
  MaxTouches = 0

PROPERTY OnlyNewDirectories
CHECK_DEADLOCK FALSE
