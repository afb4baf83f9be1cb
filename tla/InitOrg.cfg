SPECIFICATION Spec
CONSTANTS
  Proc = {"p", "q"}
  OrgId = {"a", "b"}
  Texts = {"example", "empty"}
  Size <- Sizes
  MaxStarts = 3
  MaxTouches = 2
INVARIANTS TypeOK HalfMadeHasACause OkLeavesTemplate
PROPERTY WorkIsKept
CHECK_DEADLOCK FALSE
