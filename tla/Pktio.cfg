CONSTANTS
  Threads = {t1, t2}
  NumEntries = 1
  Queues = {q1, q2}
  Packets = {p1, p2}
  Burst = 2
  MaxCmds = 1
  Apps <- ThreeApps
  None = None
SPECIFICATION Spec
INVARIANTS PacketsConserved
PROPERTIES InOrder Delivered
