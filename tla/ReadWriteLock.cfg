\* Three threads.  The embrace of release-all and a woken thread stops them all.
CONSTANTS
  t1 = t1
  t2 = t2
  t3 = t3
  NoThread = NoThread
  Threads = {t1, t2, t3}
  MaxReads = 1
SPECIFICATION FairSpec
INVARIANTS ReadersAndWritersExclude NoSleeperOnFreeLock
PROPERTY FreeLockIsClaimed
CHECK_DEADLOCK FALSE
