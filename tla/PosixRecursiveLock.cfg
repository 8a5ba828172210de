\* Three threads, one of which may unlock by force.
CONSTANTS
  t1 = t1
  t2 = t2
  t3 = t3
  NoThread = NoThread
  Threads = {t1, t2, t3}
  Unlockers = {t1}
  MaxDepth = 2
SPECIFICATION FairSpec
INVARIANTS CountIsDepth NoLostWakeup
PROPERTIES ImplementsExclusiveLock FreeLockIsClaimed
