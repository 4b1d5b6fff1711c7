SPECIFICATION FairSpec
CONSTANTS
  t1 = t1
  t2 = t2
  s1 = s1
  s2 = s2
  s3 = s3
  w1 = w1
  w2 = w2
  Threads = {t1, t2}
  Slots = {s1, s2, s3}
  Workers = {w1, w2}
  Owner <- MCOwner
  OpName <- MCOpName
  Size <- MCSize
  MaxId = 4
  minCount = 2
  minAggregateCount = 3
INVARIANTS ReachableInPool NoReadOfDisposed NothingLeftAfterScrub
PROPERTIES ScrubKeepsValues CollectionExact ScrubTerminates
