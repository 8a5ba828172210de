CONSTANTS
  t1 = t1
  t2 = t2
  t3 = t3
  NoThread = NoThread
  Threads = {t1, t2}
  Unlockers = {}
SPECIFICATION NotificationFairSpec
PROPERTY NotificationReleaseReturns
\* A woken waiter and a releaser can block each other.
CHECK_DEADLOCK FALSE
