CONSTANTS
  Threads = {t1, t2, t3, t4}
  Main = t1
  MAX_THREADS = 3
  Setups <- AllSetups
  Users = {u1, u2}
  NumBlocks = 2
  Names = {n1, n2}
  Empty = Empty
  Queues = {q1, q2}
  CPU_SETSIZE = 8
  Texts <- SomeTexts
  Bad = Bad
  None = None
SPECIFICATION Spec
INVARIANTS ThreadsKnown SharedWithProcesses MasksWalked TornDown
PROPERTIES EventuallyTerminated
