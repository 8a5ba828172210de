\* Two plain threads and one that may wait with a time limit and unlock by force.
CONSTANTS
  t1 = t1
  t2 = t2
  t3 = t3
  NoThread = NoThread
  Threads = {t1, t2, t3}
  Unlockers = {t2}
  Hasty = {t2}
  MaxAbandoned = 1
  MaxDepth = 2
SPECIFICATION Spec
SYMMETRY PlainThreads
INVARIANTS
  NotificationTypeOK
  LockInOnePlace
  NobodyLeftBehind
  CountIsWaiters
  HandshakeIsCompleted
  OwnedOnReturn
PROPERTIES
  ImplementsExclusiveLock
\* Everybody may be waiting for a notification, and nobody calls any more after a
\* crossing or an overlap.
CHECK_DEADLOCK FALSE
