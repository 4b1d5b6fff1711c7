SPECIFICATION Spec
CONSTANTS
  m1 = m1
  m2 = m2
  d1 = d1
  d2 = d2
  NoPath = NoPath
  NoModel = NoModel
  Threads = {t1}
  Models = {m1, m2}
  Dirs = {d1, d2}
  Cwd = d1
  Home <- TwoDirs
  FileName <- SameName
  NumConsts = 1
  UserPath = NoPath
  MaxMaps = 2
CHECK_DEADLOCK FALSE
INVARIANTS OwnConstants
