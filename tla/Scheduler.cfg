CONSTANTS
  Threads = {0, 1}
  Queues = {0, 1}
  Events = {e1, e2}
  Params <- MixedPrios
  NumPrio = 2
  QPP = 1
  MaxDeq = 2
  MaxNum = 2
  MaxEnq = 2
  None = None
SPECIFICATION FairSpec
INVARIANTS OneCommandEach NoLostWakeup TermFinalizes
PROPERTIES AtomicOrder EveryEventDelivered
CHECK_DEADLOCK FALSE
