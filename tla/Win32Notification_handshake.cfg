\* Three threads without time limits or forced unlocks.
CONSTANTS
  t1 = t1
  t2 = t2
  t3 = t3
  NoThread = NoThread
  Threads = {t1, t2, t3}
  Unlockers = {}
  Hasty = {}
  MaxAbandoned = 0
  MaxDepth = 1
SPECIFICATION FairSpec
PROPERTIES
  AntiNotifierIsSetAgain
\* Everybody may be waiting for a notification.
CHECK_DEADLOCK FALSE
