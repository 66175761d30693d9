SPECIFICATION SumSpec
CONSTANTS
  SegSizes = {2, 3}
  PoolLen = 2
  Headroom = 1
  Tailroom = 0
  MaxBuf = 6
  Bytes = {0, 1}
  Offsets = {0, 1, 2, 3}
  Args = {0, 1, 2, 3}
  Width = 5
  Attributes = {"l4"}
VIEW View
INVARIANTS RoomsFit FirstLookTells
PROPERTIES DataKept
