SPECIFICATION FairSpec
CONSTANTS
  m1 = m1
  m2 = m2
  d1 = d1
  d2 = d2
  NoPath = NoPath
  NoModel = NoModel
  Threads = {t1, t2}
  Models = {m1, m2}
  Dirs = {d1, d2}
  Cwd = d1
  Home <- OneDir
  FileName <- OwnNames
  NumConsts = 2
  UserPath = NoPath
  MaxMaps = 3
CHECK_DEADLOCK FALSE
INVARIANTS ConstantsReady NothingLeaked OwnConstants
PROPERTIES Refines LoadReturns
