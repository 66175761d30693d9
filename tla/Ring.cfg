CONSTANTS
  Producers = {p1, p2}
  Consumers = {c1, c2}
  Size = 4
  W = 8
  Values = {a, b}
  Marked = b
  MaxBurst = 2
  MaxLag = 4
  Flags <- ThreeUsers
  Orders = {"head_first"}
  Counts = {0}
  None = None
SPECIFICATION Spec
SYMMETRY Symmetry
INVARIANTS ClaimsHold
PROPERTIES IsFifo
