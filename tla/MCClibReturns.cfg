SPECIFICATION FairSpec
CONSTANTS
  Threads = {t1, t2, t3}
  NoThread = NoThread
  MaxHandles = 1
PROPERTIES
  EveryCallReturns
