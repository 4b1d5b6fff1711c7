SPECIFICATION FairSpec
CONSTANTS
  NoThread = NoThread
  NoVersion = NoVersion
  Threads = {t1, t2, t3}
  Versions = {v1, v2}
  Runnable = {v2}
  MaxCalls = 2
CHECK_DEADLOCK FALSE
INVARIANTS InitOnce UseAfterInit RunnableNeverRefused AcceptedOnlyIfRunnableSeen
PROPERTIES CallsReturn
