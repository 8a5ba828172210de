CONSTANTS
  c1 = c1
  c2 = c2
  d1 = d1
  d2 = d2
  o1 = o1
  o2 = o2
  Nobody = Nobody
  Clients = {c1, c2}
  Drainers = {d1, d2}
  Objects = {o1, o2}
SPECIFICATION FinalizationFairSpec
INVARIANT OneDrainingThread
PROPERTIES QueueIsDrained DrainingThreadExits
