SPECIFICATION SpecPack
CONSTANTS
  Sizes = {2, 3, 5}
  Wide = 3
  Modules <- SmallModules
  KB = 2
  GB = 3
  Frac = 2
  SingleThreshold = 2
  TotalThreshold = 2
  Stale <- OldFile
  Padding = Padding
CHECK_DEADLOCK FALSE
INVARIANTS PackedWhole Aligned
