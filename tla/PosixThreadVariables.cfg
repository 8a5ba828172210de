CONSTANTS
  m = m
  a = a
  b = b
  NoThread = NoThread
  Initial = Initial
  Junk = Junk
  Threads = {m, a, b}
  Main = m
  InitialSize = 1
  MaxVariables = 3
SPECIFICATION Spec
INVARIANTS SeesItsValue ListIsComplete
