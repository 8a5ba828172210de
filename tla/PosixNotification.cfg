CONSTANTS
  t1 = t1
  t2 = t2
  t3 = t3
  NoThread = NoThread
  Threads = {t1, t2, t3}
  Unlockers = {t1}
SPECIFICATION NotificationSpec
INVARIANTS MutualExclusion NoLostWakeup MutexIsNotLeaked OwnedOnReturn
PROPERTIES ImplementsExclusiveLock ImplementsMonitor
\* A woken waiter and a releaser can block each other.
CHECK_DEADLOCK FALSE
