CONSTANTS
  t1 = t1
  t2 = t2
  f1 = f1
  f2 = f2
  NumCos = 3
  NumPmr = 2
  NumSet = 1
  MaxTerms = 2
  MaxRules = 2
  Queues = {q1}
  Apps <- AllApps
  None = None
SPECIFICATION Spec
INVARIANTS OldOrNew DestinationExists
PROPERTIES Decides
