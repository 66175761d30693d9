CONSTANTS
  Threads = {t1, t2, t3}
  W = 4
  CntW = 9
SPECIFICATION FairSpec
INVARIANTS Exclusion
PROPERTIES ServedInOrder RoundsInStep NobodyStuck
