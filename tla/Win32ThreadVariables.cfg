\* Two growths: the first variable and the second do not fit.
CONSTANTS
  m = m
  a = a
  b = b
  NoThread = NoThread
  Initial = Initial
  Junk = Junk
  Threads = {m, a, b}
  Main = m
  InitialSize = 1
  MaxVariables = 2
  MaxWrites = 2
SPECIFICATION FairSpec
INVARIANTS
  SeesItsValue
  CounterIsWriters
PROPERTIES
  CallsReturn
