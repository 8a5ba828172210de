CONSTANTS
  m = m
  a = a
  b = b
  NoThread = NoThread
  Threads = {m, a, b}
  Main = m
  JoinVectors <- Vectors
SPECIFICATION FairSpec
INVARIANTS JoinedOnce NoLostExit MarkedWhileJoining
PROPERTIES ThreadsTerminate JoinsReturn
\* A duplicate join of several threads leaves thread_join_lock locked.
CHECK_DEADLOCK FALSE
