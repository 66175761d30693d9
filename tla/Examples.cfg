SPECIFICATION ESpec
CONSTANTS
  GenArgs <- MCGenArgs
  WAIT_NUM = 1
  MAX_DEQ = 2
  MAX_PMR_COUNT = 3
  None = None
INVARIANTS CountKept TimeoutsCounted Reflected
PROPERTIES Finishes
