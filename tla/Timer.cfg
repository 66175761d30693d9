CONSTANTS
  u1 = u1
  u2 = u2
  e1 = e1
  e2 = e2
  Setups <- AllSetups
  Notifiers = {n1, n2}
  Queues = {qa, qb}
  MinRel = 1
  MaxRel = 1
  MaxTimers = 2
  MaxTick = 2
  None = None
SPECIFICATION Spec
INVARIANTS EventInOnePlace NotEarly MemoryIntact
PROPERTIES Expires
CHECK_DEADLOCK FALSE
