SPECIFICATION Spec
CONSTANTS
  na = na  nb = nb  nc = nc  nd = nd  ta = ta  tb = tb
  l1 = l1  l2 = l2  l3 = l3  c1 = c1  c2 = c2  c3 = c3
  None = None
  Workers = {w1, w2}
  Pkts = {p1, p2, p3}
  Outs = {o1, o2, o3}
  Ctxs = {c1, c2, c3}
  Loops = {l1, l2, l3}
  MAX_DB = 3
  Setups <- MCSetups
INVARIANTS Conserved InSequence
PROPERTY AllReceived
