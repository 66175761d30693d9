CONSTANTS
  Threads = {t1, t2}
  Bufs = {b1, b2, b3}
  Blks = {k1, k2, k3}
  MaxSeg = 2
  W = 8
  None = None
SYMMETRY Symmetry
SPECIFICATION Spec
INVARIANTS Conserved Hysteresis
