SPECIFICATION Spec
CONSTANTS
  Shapes = {s1, s2, s3}
  NoShape = NoShape
  Capacity = 2
  MayFail = TRUE
  MaxTag = 5
CHECK_DEADLOCK FALSE
INVARIANTS AccessOrderMatches RightSession
