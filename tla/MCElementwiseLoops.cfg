SPECIFICATION SpecLoops
CONSTANTS
  N = N
  M = M
  NoName = NoName
  Operations <- MCOperations
  Names <- MCNames
  ArchVL = 2
  Unrolls = {1, 2}
INVARIANTS
  ShapeIsRight
  CollapseIsSafe
  AccessIsRight
  ElementsRight
  StoresFit
CHECK_DEADLOCK FALSE
