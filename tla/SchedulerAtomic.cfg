CONSTANTS
  Threads = {0, 1}
  Queues = {0, 1}
  Events = {e1, e2}
  Params <- AtomicPrios
  NumPrio = 2
  QPP = 2
  MaxDeq = 2
  MaxNum = 2
  MaxEnq = 2
  None = None
SPECIFICATION FairSpec
INVARIANTS AtomicExclusion
PROPERTIES DestroyCompletes
CHECK_DEADLOCK FALSE
