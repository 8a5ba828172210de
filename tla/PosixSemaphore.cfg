CONSTANTS
  t1 = t1
  t2 = t2
  t3 = t3
  NoThread = NoThread
  Threads = {t1, t2, t3}
  InitialCount = 0
  MaxCount = 2
SPECIFICATION FairSpec
INVARIANT EnoughWakeups
PROPERTIES ImplementsCountingSemaphore ReleaseReturns FreeUnitIsTaken
\* A release of a full semaphore leaves its mutex locked.
CHECK_DEADLOCK FALSE
